---- MODULE Spec2Model ----
(***************************************************************************)
(* GEDCOM family tree editor: the record tree built by the line parser,    *)
(* the id -> record maps (indviduals / families), the mutation operations  *)
(* of gedcom_edit.js and the breadth-first layout of gedcom.js.            *)
(*                                                                         *)
(* FamilyRow objects are modelled as a heap: `indi` and `fam` are          *)
(* sequences of objects and a handle is an index into them.  An id         *)
(* "@I<n>@" / "@F<n>@" is modelled by its number n.  The root keeps the    *)
(* INDI / FAM collections (absent, one record, or an array of records) and *)
(* the two JS Maps (insertion-ordered sequences of <<id, handle>>).        *)
(***************************************************************************)
EXTENDS Integers, Sequences, FiniteSets, TLC

VARIABLES top, indi, fam, queueForNext, orderInLevel, pc, raised, lastOp, nOps,
          dataUnparsed, dataParsed, fileContent, dataReparsed, walk,
          undoStack, redoStack, gedcomText, initialised, returned

vars == <<top, indi, fam, queueForNext, orderInLevel, pc, raised, lastOp, nOps,
          dataUnparsed, dataParsed, fileContent, dataReparsed, walk,
          undoStack, redoStack, gedcomText, initialised, returned>>

\* the file as text and as records: the lines read, the heap parse() built
\* from them, the lines the export wrote and the heap parse() built from those
fileVars == <<dataUnparsed, dataParsed, fileContent, dataReparsed>>

\* the tree as the editor and the layout see it
treeVars == <<top, indi, fam, queueForNext, orderInLevel, raised, lastOp, nOps>>

\* `walk` is the call of findParentOfParent that is running: the individual
\* it is called on, the calls made so far and how it ended
NoWalk == [node |-> 0, steps |-> 0, status |-> "none"]

\* the undo history: the two stacks of undo_state.js, the GEDCOM text the
\* injected getGedcomTextFn returns, whether initStateManager has set the two
\* functions, and what the last call of the state manager returned
undoVars == <<undoStack, redoStack, gedcomText, initialised, returned>>

\* no state manager is in use: nothing is saved and nothing is injected
NoHistory ==
    /\ undoStack = <<>>
    /\ redoStack = <<>>
    /\ gedcomText = ""
    /\ initialised = FALSE
    /\ returned = "undefined"

\* ------------------------------------------------------------------ bounds
MaxIndi == 4      \* INDI objects ever created in one behaviour of Spec
MaxFam == 2       \* FAM objects ever created in one behaviour of Spec
MaxOps == 5       \* handler calls in one behaviour (a display() that
                  \* follows a display() is not counted)
GraphIndi == 2    \* individuals of a tree drawn by InitLayout
MaxLinks == 4     \* HUSB/WIFE/CHIL entries of a tree drawn by InitLayout
MaxLines == 3     \* lines of a file drawn by InitParse
MaxCalls == 4     \* calls and edits in one behaviour of the undo history
MaxTokens == 3    \* tokens after the level of a line drawn by InitFormat
CoupleIndi == 3   \* individuals of a tree drawn by InitCouple
OriginLinks == 3  \* HUSB/WIFE/CHIL entries of its family @F1@
StackDepth == 101 \* nested calls after which a recursion ends in a RangeError
                  \* (far more in an engine; enough here to pass MaxStep)
GraphFam == MaxLinks \div 2   \* families of such a tree (two entries each)

\* --------------------------------------------------------------- constants
NOT_SET == -1
INIT_LEVEL == -10
MaxStep == 100    \* the steps a walk may take before it has to give up

\* ------------------------------------------------------- sequence helpers
\* F applied to the value of v: a statement's result is computed once and
\* then named, as a `let` of the source does
Bind(v, F(_)) == CHOOSE r \in {F(x) : x \in {v}} : TRUE

RECURSIVE IndexOf(_, _, _)
IndexOf(s, x, k) ==
    IF k > Len(s) THEN 0
    ELSE IF s[k] = x THEN k
    ELSE IndexOf(s, x, k + 1)

RemoveAt(s, k) == SubSeq(s, 1, k - 1) \o SubSeq(s, k + 1, Len(s))

InsertAt(s, k, x) == SubSeq(s, 1, k - 1) \o <<x>> \o SubSeq(s, k, Len(s))

Range(s) == {s[k] : k \in 1..Len(s)}

\* ------------------------------------------------------------ JS Map model
\* A Map is the sequence of its <<key, value>> entries in insertion order.
RECURSIVE MapIndex(_, _, _)
MapIndex(m, key, k) ==
    IF k > Len(m) THEN 0
    ELSE IF m[k][1] = key THEN k
    ELSE MapIndex(m, key, k + 1)

MapHas(m, key) == MapIndex(m, key, 1) > 0

\* Map.get: the value, or 0 for undefined (handles start at 1)
MapGet(m, key) == IF MapHas(m, key) THEN m[MapIndex(m, key, 1)][2] ELSE 0

\* Map.set keeps the position of an existing key
MapSet(m, key, val) ==
    IF MapHas(m, key)
    THEN [m EXCEPT ![MapIndex(m, key, 1)] = <<key, val>>]
    ELSE Append(m, <<key, val>>)

deleteFromMap(m, key) ==
    IF MapHas(m, key) THEN RemoveAt(m, MapIndex(m, key, 1)) ELSE m

MapKeys(m) == {m[k][1] : k \in 1..Len(m)}

MapValues(m) == {m[k][2] : k \in 1..Len(m)}

\* ---------------------------------------------------------- FamilyRow model
\* A relationship field (FAMS, FAMC, HUSB, WIFE, CHIL): absent, or an array
\* of entries; an entry holds only the id it refers to.
NoField == [has |-> FALSE, ids |-> <<>>]

ArrayField(ids) == [has |-> TRUE, ids |-> ids]

\* The root's INDI / FAM slot: absent, a single record, or an array.
NoColl == [kind |-> "absent", items |-> <<>>]

FamilyRowIndi(id, sex) ==
    [id |-> id, SEX |-> sex, FAMS |-> NoField, FAMC |-> NoField,
     visited |-> FALSE, rowLevel |-> NOT_SET]

FamilyRowFam(id) ==
    [id |-> id, HUSB |-> NoField, WIFE |-> NoField, CHIL |-> NoField,
     visited |-> FALSE, rowLevel |-> NOT_SET]

EmptyTop ==
    [INDI |-> NoColl, FAM |-> NoColl, indviduals |-> <<>>, families |-> <<>>]

\* A store is the heap plus the root; `err` is TRUE once an exception was
\* raised (the remaining statements of the handler are then skipped).
Store(t, i, f) == [top |-> t, indi |-> i, fam |-> f, err |-> FALSE]

Throw(S) == [S EXCEPT !.err = TRUE]

\* ------------------------------------------------------------- line parser
\* A line after formatLine: level, id number (0 when the line has no id),
\* tag and value ("" when the line has no value).
Line(level, id, tag, value) ==
    [level |-> level, id |-> id, tag |-> tag, value |-> value]

RelationTags == {"FAMS", "FAMC", "CHIL", "HUSB", "WIFE"}

\* parseLine's rule for a tag that is not a relationship tag, applied to the
\* root's INDI / FAM slot: first record single, second makes an array.
AttachColl(coll, h) ==
    IF coll.kind = "array" THEN [coll EXCEPT !.items = Append(@, h)]
    ELSE IF coll.kind = "single" THEN [kind |-> "array", items |-> Append(coll.items, h)]
    ELSE [kind |-> "single", items |-> <<h>>]

\* parseLine's rule for a relationship tag: always an array.
AttachRel(field, id) == ArrayField(Append(field.ids, id))

\* the walk up from lastElement: drop path entries whose level exceeds
\* element.level - 1 (the path's first entry is the root at level -1)
RECURSIVE WalkUp(_, _)
WalkUp(path, level) ==
    IF path[Len(path)].level > level - 1
    THEN WalkUp(SubSeq(path, 1, Len(path) - 1), level)
    ELSE path

\* parseLine below the parent the walk up has found: the element is attached
\* to the parent and becomes lastElement
parseLineAt(S, path, parent, element) ==
    IF parent.kind = "TOP" /\ element.tag = "INDI"
    THEN << [S EXCEPT !.indi = Append(@, FamilyRowIndi(element.id, "")),
                      !.top.INDI = AttachColl(@, Len(S.indi) + 1)],
            Append(path, [kind |-> "INDI", h |-> Len(S.indi) + 1, level |-> element.level]) >>
    ELSE IF parent.kind = "TOP" /\ element.tag = "FAM"
    THEN << [S EXCEPT !.fam = Append(@, FamilyRowFam(element.id)),
                      !.top.FAM = AttachColl(@, Len(S.fam) + 1)],
            Append(path, [kind |-> "FAM", h |-> Len(S.fam) + 1, level |-> element.level]) >>
    ELSE IF parent.kind = "INDI" /\ element.tag = "SEX"
    THEN << [S EXCEPT !.indi[parent.h].SEX =
                          IF @ = "" THEN element.value ELSE "array"],
            Append(path, [kind |-> "FIELD", h |-> 0, level |-> element.level]) >>
    ELSE IF parent.kind = "INDI" /\ element.tag = "FAMS"
    THEN << [S EXCEPT !.indi[parent.h].FAMS = AttachRel(@, element.id)],
            Append(path, [kind |-> "FIELD", h |-> 0, level |-> element.level]) >>
    ELSE IF parent.kind = "INDI" /\ element.tag = "FAMC"
    THEN << [S EXCEPT !.indi[parent.h].FAMC = AttachRel(@, element.id)],
            Append(path, [kind |-> "FIELD", h |-> 0, level |-> element.level]) >>
    ELSE IF parent.kind = "FAM" /\ element.tag = "HUSB"
    THEN << [S EXCEPT !.fam[parent.h].HUSB = AttachRel(@, element.id)],
            Append(path, [kind |-> "FIELD", h |-> 0, level |-> element.level]) >>
    ELSE IF parent.kind = "FAM" /\ element.tag = "WIFE"
    THEN << [S EXCEPT !.fam[parent.h].WIFE = AttachRel(@, element.id)],
            Append(path, [kind |-> "FIELD", h |-> 0, level |-> element.level]) >>
    ELSE IF parent.kind = "FAM" /\ element.tag = "CHIL"
    THEN << [S EXCEPT !.fam[parent.h].CHIL = AttachRel(@, element.id)],
            Append(path, [kind |-> "FIELD", h |-> 0, level |-> element.level]) >>
    ELSE \* a field the model does not keep (HEAD, NAME, DATE, ...)
         << S, Append(path, [kind |-> "FIELD", h |-> 0, level |-> element.level]) >>

\* parseLine on the state <<store, path from the root to lastElement>>
parseLine(P, element) ==
    Bind(WalkUp(P[2], element.level),
         LAMBDA path : parseLineAt(P[1], path, path[Len(path)], element))

RECURSIVE parseLines(_, _, _)
parseLines(P, lines, k) ==
    IF k > Len(lines) \/ P[1].err THEN P
    ELSE Bind(parseLine(P, lines[k]), LAMBDA Q : parseLines(Q, lines, k + 1))

\* parse: the root is the record of the line "-1 TOP"
parse(lines) ==
    Bind(lines,
         LAMBDA ls : parseLines(<< Store(EmptyTop, <<>>, <<>>),
                                   << [kind |-> "TOP", h |-> 0, level |-> -1] >> >>,
                                ls, 1)[1])

\* updateMapsForDisplay: both maps rebuilt from the root's INDI / FAM slots
RECURSIVE MapFromItems(_, _, _, _)
MapFromItems(m, objs, items, k) ==
    IF k > Len(items) THEN m
    ELSE Bind(MapSet(m, objs[items[k]].id, items[k]),
              LAMBDA m1 : MapFromItems(m1, objs, items, k + 1))

\* a rebuild that reads the root's slot only when it holds an array
recordsOfArray(coll) == IF coll.kind = "array" THEN coll.items ELSE <<>>

\* the records updateMapsForDisplay reads from the root's INDI / FAM slot:
\* those of the array, the single record, or none
recordsOf(coll) ==
    IF coll.kind = "array" THEN coll.items
    ELSE IF coll.kind = "single" THEN <<coll.items[1]>>
    ELSE <<>>

updateMapsForDisplay(S) ==
    [S EXCEPT !.top.indviduals = MapFromItems(<<>>, S.indi, recordsOf(S.top.INDI), 1),
              !.top.families = MapFromItems(<<>>, S.fam, recordsOf(S.top.FAM), 1)]

\* The built-in default tree of parse(): You, Your Father, Your Mother and
\* the family linking them (the lines of Scenario A between HEAD and TRLR).
DefaultLines ==
    << Line(0, 0, "HEAD", ""),
       Line(1, 0, "SOUR", "GEDCOM Family Tree Editor"),
       Line(2, 0, "WWW", "https://github.com"),
       Line(1, 0, "FILE", "Family Tree"),
       Line(1, 0, "DATE", "01 Feb 2026"),
       Line(1, 0, "DEST", "ANSTFILE"),
       Line(1, 0, "GEDC", ""),
       Line(2, 0, "VERS", "5.5.1"),
       Line(2, 0, "FORM", "LINEAGE-LINKED"),
       Line(0, 1, "INDI", ""),
       Line(1, 0, "NAME", "You"),
       Line(1, 0, "SEX", "M"),
       Line(1, 1, "FAMC", ""),
       Line(0, 2, "INDI", ""),
       Line(1, 0, "NAME", "Your Father"),
       Line(1, 0, "SEX", "M"),
       Line(1, 1, "FAMS", ""),
       Line(0, 3, "INDI", ""),
       Line(1, 0, "NAME", "Your Mother"),
       Line(1, 0, "SEX", "F"),
       Line(1, 1, "FAMS", ""),
       Line(0, 1, "FAM", ""),
       Line(1, 2, "HUSB", ""),
       Line(1, 3, "WIFE", ""),
       Line(1, 1, "CHIL", ""),
       Line(0, 0, "TRLR", "") >>

\* document.dataParsed after the first display(): parse() + both maps
DefaultTree == Bind(parse(DefaultLines), LAMBDA t : updateMapsForDisplay(t))

\* ---------------------------------------------------------------- deletion
findIndexFromArray(ids, id) == IndexOf(ids, id, 1)

\* deleteIDFromArray on a relationship array: the first entry with the id
deleteIDFromArray(ids, id) ==
    IF findIndexFromArray(ids, id) > 0
    THEN RemoveAt(ids, findIndexFromArray(ids, id))
    ELSE ids

\* findIndexFromArray on the root's INDI / FAM array: the position of the
\* first record whose id is `id` (0 when there is none)
RECURSIVE findIndexInColl(_, _, _, _)
findIndexInColl(objs, items, id, k) ==
    IF k > Len(items) THEN 0
    ELSE IF objs[items[k]].id = id THEN k
    ELSE findIndexInColl(objs, items, id, k + 1)

\* deleteIDFromArray on the root's INDI / FAM slot; a slot that is absent or
\* holds a single record has no findIndex: TypeError
deleteIDFromColl(coll, objs, id) ==
    IF findIndexInColl(objs, coll.items, id, 1) > 0
    THEN [coll EXCEPT !.items = RemoveAt(@, findIndexInColl(objs, coll.items, id, 1))]
    ELSE coll

isEmptyFamily(familyRow) ==
    /\ ~(familyRow.CHIL.has /\ Len(familyRow.CHIL.ids) > 0)
    /\ ~(familyRow.HUSB.has /\ Len(familyRow.HUSB.ids) > 0)
    /\ ~(familyRow.WIFE.has /\ Len(familyRow.WIFE.ids) > 0)

\* a relationship field after deleteIDFromArray(field, id); a field that is
\* not set is left alone
withoutId(field, id) ==
    IF field.has THEN ArrayField(deleteIDFromArray(field.ids, id)) ELSE field

\* clearFromIndi: INDI.forEach over the root's INDI array
RECURSIVE clearFromIndiLoop(_, _, _)
clearFromIndiLoop(S, id, k) ==
    IF k > Len(S.top.INDI.items) THEN S
    ELSE Bind([S EXCEPT !.indi[S.top.INDI.items[k]].FAMC = withoutId(@, id),
                        !.indi[S.top.INDI.items[k]].FAMS = withoutId(@, id)],
              LAMBDA S1 : clearFromIndiLoop(S1, id, k + 1))

clearFromIndi(id, S) ==
    IF S.err THEN S
    ELSE IF S.top.INDI.kind # "array" THEN Throw(S)
    ELSE clearFromIndiLoop(S, id, 1)

deleteFam(h, S) ==
    IF S.err THEN S
    ELSE Bind([S EXCEPT !.top.families = deleteFromMap(@, S.fam[h].id)],
              LAMBDA S1 :
                  IF S1.top.FAM.kind # "array" THEN Throw(S1)
                  ELSE Bind([S1 EXCEPT !.top.FAM = deleteIDFromColl(@, S1.fam, S1.fam[h].id)],
                            LAMBDA S2 : clearFromIndi(S2.fam[h].id, S2)))

\* `updated` of clearFromFam's callback: an entry with the id was removed
\* from CHIL, HUSB or WIFE
listsId(familyRow, id) ==
    \/ familyRow.CHIL.has /\ findIndexFromArray(familyRow.CHIL.ids, id) > 0
    \/ familyRow.HUSB.has /\ findIndexFromArray(familyRow.HUSB.ids, id) > 0
    \/ familyRow.WIFE.has /\ findIndexFromArray(familyRow.WIFE.ids, id) > 0

\* the body of clearFromFam's callback for one family record
clearOneFam(S, id, h) ==
    Bind([S EXCEPT !.fam[h].CHIL = withoutId(@, id),
                   !.fam[h].HUSB = withoutId(@, id),
                   !.fam[h].WIFE = withoutId(@, id)],
         LAMBDA S1 :
             IF listsId(S.fam[h], id) /\ isEmptyFamily(S1.fam[h])
             THEN deleteFam(h, S1)
             ELSE S1)

\* Array.prototype.forEach visits index k of the live array: when the
\* callback splices the array, the records behind the removed one move up
\* one place and the one that lands on index k is never visited.
NextIndex(k) == k + 1

RECURSIVE clearFromFamLoop(_, _, _)
clearFromFamLoop(S, id, k) ==
    IF S.err \/ k > Len(S.top.FAM.items) THEN S
    ELSE Bind(clearOneFam(S, id, S.top.FAM.items[k]),
              LAMBDA S1 : clearFromFamLoop(S1, id, NextIndex(k)))

clearFromFam(id, S) ==
    IF S.err THEN S
    ELSE IF S.top.FAM.kind # "array" THEN Throw(S)
    ELSE clearFromFamLoop(S, id, 1)

deleteIndi(h, S) ==
    Bind([S EXCEPT !.top.indviduals = deleteFromMap(@, S.indi[h].id)],
         LAMBDA S1 :
             IF S1.top.INDI.kind # "array" THEN Throw(S1)
             ELSE Bind([S1 EXCEPT !.top.INDI = deleteIDFromColl(@, S1.indi, S1.indi[h].id)],
                       LAMBDA S2 : clearFromFam(S2.indi[h].id, S2)))

\* ------------------------------------------------------------ add relative
RECURSIVE firstFreeId(_, _)
firstFreeId(m, n) == IF MapHas(m, n) THEN firstFreeId(m, n + 1) ELSE n

nextIndividualID(S) == firstFreeId(S.top.indviduals, Len(S.top.indviduals) + 1)

nextFamilyID(S) == firstFreeId(S.top.families, Len(S.top.families) + 1)

\* addIndiToRoot / addFamToRoot on the root's slot: a single record is
\* wrapped in an array first
PushColl(coll, h) == [kind |-> "array", items |-> Append(coll.items, h)]

addIndiToRoot(S, h) ==
    [S EXCEPT !.top.INDI = PushColl(@, h),
              !.top.indviduals = MapSet(@, S.indi[h].id, h)]

\* an addFamToRoot that leaves the families map as it is
addFamToRootNoIndex(S, h) == [S EXCEPT !.top.FAM = PushColl(@, h)]

addFamToRoot(S, h) ==
    [S EXCEPT !.top.FAM = PushColl(@, h),
              !.top.families = MapSet(@, S.fam[h].id, h)]

\* createNewNode: the new record's handle is Len(result.indi)
createNewNode(S, gender) ==
    Bind([S EXCEPT !.indi = Append(@, FamilyRowIndi(nextIndividualID(S), gender))],
         LAMBDA S1 : addIndiToRoot(S1, Len(S1.indi)))

\* new FamilyRow(0, nextFamilyID(root), "FAM") + addFamToRoot
createFamily(S) ==
    Bind([S EXCEPT !.fam = Append(@, FamilyRowFam(nextFamilyID(S)))],
         LAMBDA S1 : addFamToRoot(S1, Len(S1.fam)))

\* createOrGetFamilyOfChild: the store and the family's handle (0 when the
\* first FAMC entry names no family of the map: families.get gives undefined)
createOrGetFamilyOfChild(h, S) ==
    IF ~(S.indi[h].FAMC.has /\ Len(S.indi[h].FAMC.ids) > 0)
    THEN Bind(createFamily(S),
              LAMBDA S1 :
                  [S |-> [S1 EXCEPT !.indi[h].FAMC = ArrayField(<<S1.fam[Len(S1.fam)].id>>),
                                    !.fam[Len(S1.fam)].CHIL = ArrayField(<<S1.indi[h].id>>)],
                   f |-> Len(S1.fam)])
    ELSE [S |-> S, f |-> MapGet(S.top.families, S.indi[h].FAMC.ids[1])]

createOrGetFamilyOfPartner(h, S) ==
    IF ~(S.indi[h].FAMS.has /\ Len(S.indi[h].FAMS.ids) > 0)
    THEN Bind(createFamily(S),
              LAMBDA S1 :
                  [S |-> IF S1.indi[h].SEX = "M"
                         THEN [S1 EXCEPT !.indi[h].FAMS = ArrayField(<<S1.fam[Len(S1.fam)].id>>),
                                         !.fam[Len(S1.fam)].HUSB = ArrayField(<<S1.indi[h].id>>)]
                         ELSE [S1 EXCEPT !.indi[h].FAMS = ArrayField(<<S1.fam[Len(S1.fam)].id>>),
                                         !.fam[Len(S1.fam)].WIFE = ArrayField(<<S1.indi[h].id>>)],
                   f |-> Len(S1.fam)])
    ELSE [S |-> S, f |-> MapGet(S.top.families, S.indi[h].FAMS.ids[1])]

\* `field.push(entry)` when the field holds entries, `field = [entry]` otherwise
PushOrCreate(field, id) ==
    IF field.has /\ Len(field.ids) > 0
    THEN ArrayField(Append(field.ids, id))
    ELSE ArrayField(<<id>>)

\* addParentsIfNotAvailable, the husband: a new father unless the family
\* has a HUSB entry
addFatherIfNotAvailable(f, S) ==
    IF S.fam[f].HUSB.has /\ Len(S.fam[f].HUSB.ids) > 0 THEN S
    ELSE Bind(createNewNode(S, "M"),
              LAMBDA T : [T EXCEPT !.indi[Len(T.indi)].FAMS = ArrayField(<<T.fam[f].id>>),
                                   !.fam[f].HUSB = ArrayField(<<T.indi[Len(T.indi)].id>>)])

\* an addParentsIfNotAvailable that gives the family a new wife every time
addMotherAlways(f, S) ==
    Bind(createNewNode(S, "F"),
         LAMBDA T : [T EXCEPT !.indi[Len(T.indi)].FAMS = ArrayField(<<T.fam[f].id>>),
                              !.fam[f].WIFE = ArrayField(<<T.indi[Len(T.indi)].id>>)])

\* addParentsIfNotAvailable, the wife
addMotherIfNotAvailable(f, S) ==
    IF S.fam[f].WIFE.has /\ Len(S.fam[f].WIFE.ids) > 0 THEN S
    ELSE Bind(createNewNode(S, "F"),
              LAMBDA T : [T EXCEPT !.indi[Len(T.indi)].FAMS = ArrayField(<<T.fam[f].id>>),
                                   !.fam[f].WIFE = ArrayField(<<T.indi[Len(T.indi)].id>>)])

addParentsIfNotAvailable(h, S) ==
    Bind(createOrGetFamilyOfChild(h, S),
         LAMBDA R :
             IF R.f = 0 THEN Throw(R.S)      \* familyRow.HUSB of undefined
             ELSE Bind(addFatherIfNotAvailable(R.f, R.S),
                       LAMBDA S2 : addMotherIfNotAvailable(R.f, S2)))

\* the new sibling T.indi[Len(T.indi)] is entered in the family f
addSiblingTo(f, T) ==
    IF f = 0 THEN Throw(T)                   \* familyRow.CHIL of undefined
    ELSE IF ~T.fam[f].CHIL.has THEN Throw(T) \* undefined.push
    ELSE [T EXCEPT !.fam[f].CHIL = ArrayField(Append(@.ids, T.indi[Len(T.indi)].id)),
                   !.indi[Len(T.indi)].FAMC = ArrayField(<<T.fam[f].id>>)]

addSibling(h, gender, S) ==
    Bind(createOrGetFamilyOfChild(h, S),
         LAMBDA R : Bind(createNewNode(R.S, gender), LAMBDA T : addSiblingTo(R.f, T)))

\* the new partner T.indi[Len(T.indi)] is entered in the family f
addPartnerTo(f, gender, T) ==
    IF f = 0 THEN Throw(T)                   \* familyRow.id of undefined
    ELSE IF gender = "M"
    THEN [T EXCEPT !.indi[Len(T.indi)].FAMS = ArrayField(<<T.fam[f].id>>),
                   !.fam[f].HUSB = PushOrCreate(@, T.indi[Len(T.indi)].id)]
    ELSE [T EXCEPT !.indi[Len(T.indi)].FAMS = ArrayField(<<T.fam[f].id>>),
                   !.fam[f].WIFE = PushOrCreate(@, T.indi[Len(T.indi)].id)]

addPartner(h, gender, S) ==
    Bind(createOrGetFamilyOfPartner(h, S),
         LAMBDA R : Bind(createNewNode(R.S, gender), LAMBDA T : addPartnerTo(R.f, gender, T)))

\* the new child T.indi[Len(T.indi)] is entered in the family f
addChildTo(f, T) ==
    IF f = 0 THEN Throw(T)                   \* currentFamilyRow.id of undefined
    ELSE [T EXCEPT !.indi[Len(T.indi)].FAMC = ArrayField(<<T.fam[f].id>>),
                   !.fam[f].CHIL = PushOrCreate(@, T.indi[Len(T.indi)].id)]

\* addChildToFamily on the family with handle f (0: undefined)
addChildToFamily(f, gender, S) ==
    Bind(createNewNode(S, gender), LAMBDA T : addChildTo(f, T))

\* addNewNode(child_from_parent)
addChildFromParent(h, gender, S) ==
    Bind(createOrGetFamilyOfPartner(h, S), LAMBDA R : addChildToFamily(R.f, gender, R.S))

\* ------------------------------------------------------------------ layout
\* A queue or row entry is a reference to a record: <<"INDI", h>> or <<"FAM", h>>.
IndiRef(h) == <<"INDI", h>>

FamRef(h) == <<"FAM", h>>

\* getIdFromNode(node, tag) on a relationship field: "null" when the field
\* is absent, "throw" when the array is empty (array[0].id of undefined),
\* otherwise the id of the first entry
getIdFromNode(field) ==
    IF ~field.has THEN [kind |-> "null", id |-> 0]
    ELSE IF Len(field.ids) = 0 THEN [kind |-> "throw", id |-> 0]
    ELSE [kind |-> "id", id |-> field.ids[1]]

\* the father findParentOfParent goes on with from the individual h: 0 when
\* h is the top of its paternal line, -1 when the step raises (a TypeError
\* in getIdFromNode)
fatherOf(S, h) ==
    Bind(getIdFromNode(S.indi[h].FAMC),
         LAMBDA parentFamily :
             IF parentFamily.kind = "throw" THEN -1
             ELSE IF parentFamily.kind = "null" THEN 0
             ELSE IF ~MapHas(S.top.families, parentFamily.id)
             THEN -1                            \* getIdFromNode(undefined, 'HUSB')
             ELSE Bind(getIdFromNode(S.fam[MapGet(S.top.families, parentFamily.id)].HUSB),
                       LAMBDA parentId :
                           IF parentId.kind = "throw" THEN -1
                           ELSE IF parentId.kind = "null" THEN 0
                           ELSE MapGet(S.top.indviduals, parentId.id)))

\* findParentOfParent: the handle of the topmost paternal ancestor, 0 for
\* null, -1 when the walk raises (a TypeError in getIdFromNode, or the
\* RangeError of an unbounded recursion on a cyclic FAMC chain: `fuel`
\* counts the individuals not yet seen on the walk)
RECURSIVE findParentOfParent(_, _, _)
findParentOfParent(S, h, fuel) ==
    IF h = 0 THEN 0
    ELSE IF fuel = 0 THEN -1
    ELSE Bind(fatherOf(S, h),
              LAMBDA father :
                  IF father = -1 THEN -1
                  ELSE IF father = 0 THEN h
                  ELSE findParentOfParent(S, father, fuel - 1))

\* a resetAndInitAll that leaves the visited flags as the last run set them
resetAndInitAllKeep(S) == S

\* resetAndInitAll: visited = false on every record of the two maps
resetAndInitAll(S) ==
    [S EXCEPT !.indi = [h \in DOMAIN S.indi |->
                           IF h \in MapValues(S.top.indviduals)
                           THEN [S.indi[h] EXCEPT !.visited = FALSE] ELSE S.indi[h]],
              !.fam = [h \in DOMAIN S.fam |->
                          IF h \in MapValues(S.top.families)
                          THEN [S.fam[h] EXCEPT !.visited = FALSE] ELSE S.fam[h]]]

\* the level a neighbour is given when it is put on the queue
SpouseLevel(level) == level

\* a child queued at the level of its family
ChildLevelSame(level) == level

ChildLevel(level) == level + 1

ParentFamilyLevel(level) == level - 1

\* an addElementsToQueue that queues a record whether visited or not
queueElementAlways(L, h, level, tagType) ==
    IF h = 0 THEN L
    ELSE IF tagType = "FAM"
    THEN [S |-> [L.S EXCEPT !.fam[h].rowLevel = level], q |-> Append(L.q, FamRef(h))]
    ELSE [S |-> [L.S EXCEPT !.indi[h].rowLevel = level], q |-> Append(L.q, IndiRef(h))]

\* the body of addElementsToQueue's loop for the record with handle h (0:
\* the id is not in the map): a record not yet visited is given the level
\* and put on the queue
queueElement(L, h, level, tagType) ==
    IF h = 0 THEN L
    ELSE IF tagType = "FAM"
    THEN IF L.S.fam[h].visited THEN L
         ELSE [S |-> [L.S EXCEPT !.fam[h].rowLevel = level],
               q |-> Append(L.q, FamRef(h))]
    ELSE IF L.S.indi[h].visited THEN L
         ELSE [S |-> [L.S EXCEPT !.indi[h].rowLevel = level],
               q |-> Append(L.q, IndiRef(h))]

\* addElementsToQueue: L is [S, q]; ids are the entries of one field.  The
\* records carry no ORDER field, so the comparator answers 0 for every pair
\* and the (stable) sort keeps the order of discovery.
RECURSIVE addElementsToQueue(_, _, _, _, _)
addElementsToQueue(L, ids, level, tagType, k) ==
    IF k > Len(ids) THEN L
    ELSE Bind(queueElement(L,
                           IF tagType = "FAM" THEN MapGet(L.S.top.families, ids[k])
                           ELSE MapGet(L.S.top.indviduals, ids[k]),
                           level, tagType),
              LAMBDA L1 : addElementsToQueue(L1, ids, level, tagType, k + 1))

\* addNextElements for a family: HUSB, WIFE, then CHIL
addNextOfFam(L, f, level) ==
    Bind(addElementsToQueue(L, f.HUSB.ids, SpouseLevel(level), "INDI", 1),
         LAMBDA L1 :
             Bind(addElementsToQueue(L1, f.WIFE.ids, SpouseLevel(level), "INDI", 1),
                  LAMBDA L2 : addElementsToQueue(L2, f.CHIL.ids, ChildLevel(level), "INDI", 1)))

\* addNextElements for an individual: FAMS, then FAMC
addNextOfIndi(L, i, level) ==
    Bind(addElementsToQueue(L, i.FAMS.ids, SpouseLevel(level), "FAM", 1),
         LAMBDA L1 : addElementsToQueue(L1, i.FAMC.ids, ParentFamilyLevel(level), "FAM", 1))

addNextElements(L, element) ==
    IF element[1] = "FAM"
    THEN addNextOfFam(L, L.S.fam[element[2]], L.S.fam[element[2]].rowLevel)
    ELSE addNextOfIndi(L, L.S.indi[element[2]], L.S.indi[element[2]].rowLevel)

\* getVisitedElement: the first visited individual of the list; 0 for null,
\* -1 when an entry's id is not in the map (undefined.visited)
RECURSIVE getVisitedElement(_, _, _)
getVisitedElement(S, ids, k) ==
    IF k > Len(ids) THEN 0
    ELSE LET h == MapGet(S.top.indviduals, ids[k])
         IN  IF h = 0 THEN -1
             ELSE IF S.indi[h].visited THEN h
             ELSE getVisitedElement(S, ids, k + 1)

idInList(id, field) == field.has /\ findIndexFromArray(field.ids, id) > 0

\* the loop over element.FAMS in calculateDisplayPositions: the anchors
\* [prev, next] (references, or <<>> for null) given by the first visited
\* family that lists the individual as HUSB or WIFE
RECURSIVE famsAnchor(_, _, _, _)
famsAnchor(S, id, ids, k) ==
    IF k > Len(ids) THEN [err |-> FALSE, prev |-> <<>>, next |-> <<>>]
    ELSE Bind(MapGet(S.top.families, ids[k]),
              LAMBDA f :
                  IF f # 0 /\ S.fam[f].visited /\ idInList(id, S.fam[f].HUSB)
                  THEN [err |-> FALSE, prev |-> <<>>, next |-> FamRef(f)]
                  ELSE IF f # 0 /\ S.fam[f].visited /\ idInList(id, S.fam[f].WIFE)
                  THEN [err |-> FALSE, prev |-> FamRef(f), next |-> <<>>]
                  ELSE famsAnchor(S, id, ids, k + 1))

\* the anchors of a family: its first visited husband and wife; err when
\* getVisitedElement raised
coupleAnchor(husb, wife) ==
    [err |-> husb = -1 \/ wife = -1,
     prev |-> IF husb > 0 THEN IndiRef(husb) ELSE <<>>,
     next |-> IF wife > 0 THEN IndiRef(wife) ELSE <<>>]

\* RowInGraph.addAfter / addBefore on the order array of a row
addAfter(order, newElement, existing) ==
    IF IndexOf(order, existing, 1) > 0
    THEN InsertAt(order, IndexOf(order, existing, 1) + 1, newElement)
    ELSE Append(order, newElement)

addBefore(order, newElement, existing) ==
    IF IndexOf(order, existing, 1) > 0
    THEN InsertAt(order, IndexOf(order, existing, 1), newElement)
    ELSE Append(order, newElement)

\* orderInLevel.get(level), a new RowInGraph when the row is missing
RowOf(o, level) == IF MapHas(o, level) THEN o[MapIndex(o, level, 1)][2] ELSE <<>>

\* display() up to the loop of calculateDisplayPositions: the maps are
\* rebuilt, the anchor is given INIT_LEVEL and queued, the visited flags
\* are cleared.  Result: [S, q], S.err when findParentOfParent raised.
displayFrom(S1, q, firstOne) ==
    IF firstOne = -1 THEN [S |-> Throw(S1), q |-> q]
    ELSE IF firstOne = 0 THEN [S |-> resetAndInitAll(S1), q |-> q]
    ELSE [S |-> resetAndInitAll([S1 EXCEPT !.indi[firstOne].rowLevel = INIT_LEVEL]),
          q |-> Append(q, IndiRef(firstOne))]

displayBegin(S, q) ==
    Bind(updateMapsForDisplay(S),
         LAMBDA S1 :
             Bind(findParentOfParent(
                      S1,
                      IF Len(S1.top.indviduals) > 0 THEN S1.top.indviduals[1][2] ELSE 0,
                      Len(S1.indi) + 1),
                  LAMBDA firstOne : displayFrom(S1, q, firstOne)))

\* the element is put in the row of its level, after prev or before next
placeElement(L, o, element, level, anchor) ==
    IF anchor.err THEN [S |-> Throw(L.S), q |-> L.q, o |-> o]
    ELSE [S |-> L.S, q |-> L.q,
          o |-> MapSet(o, level,
                       IF anchor.prev # <<>>
                       THEN addAfter(RowOf(o, level), element, anchor.prev)
                       ELSE addBefore(RowOf(o, level), element, anchor.next))]

\* the anchors of the element once its neighbours are queued
anchorOf(S, element) ==
    IF element[1] = "FAM"
    THEN coupleAnchor(getVisitedElement(S, S.fam[element[2]].HUSB.ids, 1),
                      getVisitedElement(S, S.fam[element[2]].WIFE.ids, 1))
    ELSE famsAnchor(S, S.indi[element[2]].id, S.indi[element[2]].FAMS.ids, 1)

\* element.rowLevel
RowLevelIn(S, element) ==
    IF element[1] = "FAM" THEN S.fam[element[2]].rowLevel ELSE S.indi[element[2]].rowLevel

\* the store with element.visited = true
markVisited(S, element) ==
    IF element[1] = "FAM" THEN [S EXCEPT !.fam[element[2]].visited = TRUE]
    ELSE [S EXCEPT !.indi[element[2]].visited = TRUE]

\* one turn of the while loop for an element that is not yet visited:
\* [S, q, o], S.err when getVisitedElement raised
visitElement(S, q, o, element) ==
    Bind(addNextElements([S |-> markVisited(S, element), q |-> q], element),
         LAMBDA L :
             Bind(anchorOf(L.S, element),
                  LAMBDA anchor : placeElement(L, o, element, RowLevelIn(S, element), anchor)))

\* resetRowLevel: the smallest key becomes row 0
RECURSIVE MinKey(_, _, _)
MinKey(o, k, m) ==
    IF k > Len(o) THEN m
    ELSE MinKey(o, k + 1, IF o[k][1] < m THEN o[k][1] ELSE m)

\* the key of the first row filled instead of the smallest key
MinRowFirst(o) == o[1][1]

MinRow(o) == MinKey(o, 2, o[1][1])

Normalised(value, min) == value - min

\* element.rowLevel -= min for the elements of one row
RECURSIVE shiftRow(_, _, _, _)
shiftRow(S, order, min, k) ==
    IF k > Len(order) THEN S
    ELSE Bind(IF order[k][1] = "FAM"
              THEN [S EXCEPT !.fam[order[k][2]].rowLevel = Normalised(@, min)]
              ELSE [S EXCEPT !.indi[order[k][2]].rowLevel = Normalised(@, min)],
              LAMBDA S1 : shiftRow(S1, order, min, k + 1))

RECURSIVE shiftRows(_, _, _, _)
shiftRows(S, o, min, k) ==
    IF k > Len(o) THEN S
    ELSE Bind(shiftRow(S, o[k][2], min, 1), LAMBDA S1 : shiftRows(S1, o, min, k + 1))

\* [S, o] after resetRowLevel (nothing to do when no row was filled)
resetRowLevel(S, o) ==
    IF Len(o) = 0 THEN [S |-> S, o |-> o]
    ELSE Bind(MinRow(o),
              LAMBDA min : [S |-> shiftRows(S, o, min, 1),
                            o |-> [k \in 1..Len(o) |-> <<Normalised(o[k][1], min), o[k][2]>>]])

\* record.visited in the store
isVisited(S, element) ==
    IF element[1] = "FAM" THEN S.fam[element[2]].visited ELSE S.indi[element[2]].visited

\* calculateDisplayPositions from its loop on, run to its end: [S, q, o]
\* when the loop has ended and resetRowLevel is done, or when a turn raised
RECURSIVE calculateDisplayPositions(_, _, _)
calculateDisplayPositions(S, q, o) ==
    IF S.err THEN [S |-> S, q |-> q, o |-> o]
    ELSE IF Len(q) = 0
    THEN Bind(resetRowLevel(S, o), LAMBDA R : [S |-> R.S, q |-> q, o |-> R.o])
    ELSE IF isVisited(S, Head(q)) THEN calculateDisplayPositions(S, Tail(q), o)
    ELSE Bind(visitElement(S, Tail(q), o, Head(q)),
              LAMBDA L : calculateDisplayPositions(L.S, L.q, L.o))

\* display() as one call on the store, the queue and the row map it finds
display(S, q, o) ==
    Bind(displayBegin(S, q),
         LAMBDA L :
             IF L.S.err THEN [S |-> L.S, q |-> L.q, o |-> o]
             ELSE calculateDisplayPositions(L.S, L.q, <<>>))

\* ------------------------------------------------------ trees to lay out
\* A link <<i, f, role>>: individual i is listed under `role` in family f
\* and lists f in its FAMS (HUSB, WIFE) or FAMC (CHIL).
Roles == {"HUSB", "WIFE", "CHIL"}

RECURSIVE SubsetsUpTo(_, _)
SubsetsUpTo(T, n) ==
    IF n = 0 \/ T = {} THEN {{}}
    ELSE LET x == CHOOSE y \in T : TRUE
         IN  SubsetsUpTo(T \ {x}, n) \cup {U \cup {x} : U \in SubsetsUpTo(T \ {x}, n - 1)}

\* the lines "1 <tag> @..@" of one record, in the order of the ids 1..n
RECURSIVE RefLines(_, _, _, _)
RefLines(tag, refs, k, n) ==
    IF k > n THEN <<>>
    ELSE (IF k \in refs THEN <<Line(1, k, tag, "")>> ELSE <<>>)
         \o RefLines(tag, refs, k + 1, n)

IndiLines(i, nF, links) ==
    <<Line(0, i, "INDI", "")>>
    \o RefLines("FAMS", {f \in 1..nF : <<i, f, "HUSB">> \in links \/ <<i, f, "WIFE">> \in links}, 1, nF)
    \o RefLines("FAMC", {f \in 1..nF : <<i, f, "CHIL">> \in links}, 1, nF)

FamLines(f, nI, links) ==
    <<Line(0, f, "FAM", "")>>
    \o RefLines("HUSB", {i \in 1..nI : <<i, f, "HUSB">> \in links}, 1, nI)
    \o RefLines("WIFE", {i \in 1..nI : <<i, f, "WIFE">> \in links}, 1, nI)
    \o RefLines("CHIL", {i \in 1..nI : <<i, f, "CHIL">> \in links}, 1, nI)

RECURSIVE AllIndiLines(_, _, _, _)
AllIndiLines(i, nI, nF, links) ==
    IF i > nI THEN <<>>
    ELSE IndiLines(i, nF, links) \o AllIndiLines(i + 1, nI, nF, links)

RECURSIVE AllFamLines(_, _, _, _)
AllFamLines(f, nI, nF, links) ==
    IF f > nF THEN <<>>
    ELSE FamLines(f, nI, links) \o AllFamLines(f + 1, nI, nF, links)

\* the file of a tree with nI individuals, nF families and the given links
GraphLines(nI, nF, links) ==
    AllIndiLines(1, nI, nF, links) \o AllFamLines(1, nI, nF, links)

\* ------------------------------------------------- the file, line by line
\* A line of the file is the sequence of its tokens (line.split(' ')): the
\* level first.  A token that starts with '@' is one of RefTokens; no other
\* token holds an '@'.  A blank line is the empty sequence.
RefTokens == {"@F1@", "@X1@"}

\* tmp.charAt(0) === '@'
startsWithAt(token) == token \in RefTokens

\* value.match(/@[^@]+@/) on the joined tokens
matchesReference(tokens) == \E k \in 1..Len(tokens) : tokens[k] \in RefTokens

\* new FamilyRow(level, id, tag, value): a field that is not set is <<>>
\* (id, value) or "" (tag); `parent` is the handle of the parent (0: none),
\* `props` the own properties that hold records, in the order they were set
FamilyRow(level, id, tag, value) ==
    [level |-> level, id |-> id, tag |-> tag, value |-> value,
     parent |-> 0, props |-> <<>>]

\* formatLine once level and the first token are shifted off: id, tag, value
formatRest(level, id, tag, rest) ==
    IF Len(rest) > 0
    THEN IF matchesReference(rest)
         THEN FamilyRow(level, rest, tag, <<>>)
         ELSE FamilyRow(level, id, tag, rest)
    ELSE FamilyRow(level, id, tag, <<>>)

\* formatLine: a line of one token raises at tmp.charAt (tmp is undefined),
\* the catch logs it and the record is built from what was set: the level
formatLine(line) ==
    IF Len(line) < 2 THEN FamilyRow(line[1], <<>>, "", <<>>)
    ELSE IF startsWithAt(line[2])
    THEN formatRest(line[1], <<line[2]>>,
                    IF Len(line) > 2 THEN line[3] ELSE "",
                    SubSeq(line, 4, Len(line)))
    ELSE formatRest(line[1], <<>>, line[2], SubSeq(line, 3, Len(line)))

\* FamilyRow.toString, as the tokens the string splits into
toString(r) ==
    <<r.level>>
    \o (IF r.level = 0 THEN r.id ELSE <<>>)
    \o (IF r.tag # "" THEN <<r.tag>> ELSE <<>>)
    \o (IF r.level # 0 THEN r.id ELSE <<>>)
    \o r.value

\* the property name a record is stored under: String(undefined) for a
\* record without a tag
propKey(element) == IF element.tag = "" THEN "undefined" ELSE element.tag

RECURSIVE propIndex(_, _, _)
propIndex(props, key, k) ==
    IF k > Len(props) THEN 0
    ELSE IF props[k].key = key THEN k
    ELSE propIndex(props, key, k + 1)

\* a parseLine that attaches every record under lastElement
parentElemLast(H, p, level) == p

\* the while loop of parseLine: the handle of parent_elem
RECURSIVE parentElem(_, _, _)
parentElem(H, p, level) ==
    IF H[p].level > level - 1 THEN parentElem(H, H[p].parent, level) ELSE p

\* a parseLine without the rule for the relationship tags
attachPropPlain(props, key, n) ==
    IF propIndex(props, key, 1) > 0
    THEN [props EXCEPT ![propIndex(props, key, 1)] =
              [key |-> key, array |-> TRUE, items |-> Append(@.items, n)]]
    ELSE Append(props, [key |-> key, array |-> FALSE, items |-> <<n>>])

\* parent_elem[element.tag] after parseLine stored the record with handle n
attachProp(props, key, n) ==
    IF propIndex(props, key, 1) > 0
    THEN [props EXCEPT ![propIndex(props, key, 1)] =
              [key |-> key, array |-> TRUE, items |-> Append(@.items, n)]]
    ELSE IF key \in RelationTags
    THEN Append(props, [key |-> key, array |-> TRUE, items |-> <<n>>])
    ELSE Append(props, [key |-> key, array |-> FALSE, items |-> <<n>>])

\* parseLine on the heap H of records (H[1] is the root): the element gets
\* the handle Len(H) + 1 and is the next lastElement
parseLineRecord(H, lastElement, element) ==
    Bind(parentElem(H, lastElement, element.level),
         LAMBDA p :
             Append([H EXCEPT ![p].props = attachProp(@, propKey(element), Len(H) + 1)],
                    [element EXCEPT !.parent = p]))

\* the forEach of parse() over the lines that are not empty
RECURSIVE parseRecords(_, _, _)
parseRecords(H, lines, k) ==
    IF k > Len(lines) THEN H
    ELSE IF Len(lines[k]) = 0 THEN parseRecords(H, lines, k + 1)
    ELSE Bind(parseLineRecord(H, Len(H), formatLine(lines[k])),
              LAMBDA H1 : parseRecords(H1, lines, k + 1))

\* parse() of a file: the heap under the record of "-1 TOP"
parseFile(lines) == parseRecords(<<FamilyRow(-1, <<>>, "TOP", <<>>)>>, lines, 1)

\* createFileContentOne on the record n: its line, then the lines of the
\* records its properties hold, property by property
RECURSIVE createFileContentOne(_, _)
RECURSIVE contentOfItems(_, _, _)
RECURSIVE contentOfProps(_, _, _)
contentOfItems(H, items, k) ==
    IF k > Len(items) THEN <<>>
    ELSE createFileContentOne(H, items[k]) \o contentOfItems(H, items, k + 1)

contentOfProps(H, props, k) ==
    IF k > Len(props) THEN <<>>
    ELSE contentOfItems(H, props[k].items, 1) \o contentOfProps(H, props, k + 1)

createFileContentOne(H, n) == <<toString(H[n])>> \o contentOfProps(H, H[n].props, 1)

\* the part of the root's properties createFileContent adds to `first`
\* (a single HEAD), to `last` (a single TRLR) or to `middle` (the others)
RECURSIVE contentOfPart(_, _, _, _)
contentOfPart(H, props, part, k) ==
    IF k > Len(props) THEN <<>>
    ELSE (IF part = (IF ~props[k].array /\ props[k].key = "HEAD" THEN "first"
                     ELSE IF ~props[k].array /\ props[k].key = "TRLR" THEN "last"
                     ELSE "middle")
          THEN contentOfItems(H, props[k].items, 1) ELSE <<>>)
         \o contentOfPart(H, props, part, k + 1)

\* createFileContent: the lines of the exported file
createFileContent(H) ==
    contentOfPart(H, H[1].props, "first", 1)
    \o contentOfPart(H, H[1].props, "middle", 1)
    \o contentOfPart(H, H[1].props, "last", 1)

\* the same file without the record of individual skipI and without the
\* record of family skipF (0: none is left out): the entries that name the
\* missing record are dangling
RECURSIVE IndiLinesExcept(_, _, _, _, _)
IndiLinesExcept(i, nI, nF, links, skipI) ==
    IF i > nI THEN <<>>
    ELSE (IF i = skipI THEN <<>> ELSE IndiLines(i, nF, links))
         \o IndiLinesExcept(i + 1, nI, nF, links, skipI)

RECURSIVE FamLinesExcept(_, _, _, _, _)
FamLinesExcept(f, nI, nF, links, skipF) ==
    IF f > nF THEN <<>>
    ELSE (IF f = skipF THEN <<>> ELSE FamLines(f, nI, links))
         \o FamLinesExcept(f + 1, nI, nF, links, skipF)

DanglingLines(nI, nF, links, skipI, skipF) ==
    IndiLinesExcept(1, nI, nF, links, skipI) \o FamLinesExcept(1, nI, nF, links, skipF)

\* ------------------------------------------------------------------ states
CurS == Store(top, indi, fam)

DisplayOp == [op |-> "display", arg |-> 0]

\* the editor and the layout work on the tree, not on the lines
NoFile ==
    /\ dataUnparsed = <<>>
    /\ dataParsed = <<>>
    /\ fileContent = <<>>
    /\ dataReparsed = <<>>

\* the first display() of a freshly parsed tree has reached its loop
Started(tree) ==
    \E L \in {displayBegin(tree, <<>>)} :
        /\ top = L.S.top
        /\ indi = L.S.indi
        /\ fam = L.S.fam
        /\ queueForNext = L.q
        /\ orderInLevel = <<>>
        /\ pc = IF L.S.err THEN "idle" ELSE "layout"
        /\ raised = L.S.err
        /\ lastOp = DisplayOp
        /\ nOps = 0
        /\ NoFile
        /\ walk = NoWalk
        /\ NoHistory

\* no file loaded: parse() builds the default tree
Init == Started(parse(DefaultLines))

\* a loaded file: any tree within the bounds
InitLayout ==
    \E nI \in 0..GraphIndi, nF \in 0..GraphFam :
        \E links \in SubsetsUpTo((1..nI) \X (1..nF) \X Roles, MaxLinks) :
            Started(parse(GraphLines(nI, nF, links)))

\* ----------------------------------------------------------------- actions
Genders == {"M", "F", "O"}

\* the records the user can select: the values of the two maps
SelectableIndi == MapValues(top.indviduals)

SelectableFam == MapValues(top.families)

WithinBounds(R) == Len(R.indi) <= MaxIndi /\ Len(R.fam) <= MaxFam

\* a handler of gedcom_edit.js can be called
Idle == pc = "idle" /\ nOps < MaxOps

\* the state after a handler of gedcom_edit.js ran on the store
Commit(R, op, arg) ==
    /\ WithinBounds(R)
    /\ nOps' = nOps + 1
    /\ top' = R.top
    /\ indi' = R.indi
    /\ fam' = R.fam
    /\ raised' = R.err
    /\ lastOp' = [op |-> op, arg |-> arg]
    /\ UNCHANGED <<queueForNext, orderInLevel, pc>>
    /\ UNCHANGED <<fileVars, walk, undoVars>>

\* addNewNode(partner)
addSpouse(h, g) ==
    Idle /\ \E R \in {addPartner(h, g, CurS)} : Commit(R, "addSpouse", h)

\* addNewNode(sibling)
addSiblingOp(h, g) ==
    Idle /\ \E R \in {addSibling(h, g, CurS)} : Commit(R, "addSibling", h)

\* addNewNode(parent)
addParents(h) ==
    Idle /\ \E R \in {addParentsIfNotAvailable(h, CurS)} : Commit(R, "addParents", h)

\* addNewNode(child_from_parent), an individual is selected
addChild(h, g) ==
    Idle /\ \E R \in {addChildFromParent(h, g, CurS)} : Commit(R, "addChild", h)

\* addNewNode(child_fam), a family is selected
addChildFam(f, g) ==
    Idle /\ \E R \in {addChildToFamily(f, g, CurS)} : Commit(R, "addChildFam", f)

\* deleteNode() on a selected individual
deleteIndividual(h) ==
    Idle /\ \E R \in {deleteIndi(h, CurS)} : Commit(R, "deleteIndividual", h)

\* deleteNode() on a selected family
deleteFamily(f) ==
    Idle /\ \E R \in {deleteFam(f, CurS)} : Commit(R, "deleteFamily", f)

\* display() is called: up to the first turn of the loop
DisplayBegin ==
    /\ pc = "idle"
    /\ lastOp.op = "display" \/ nOps < MaxOps
    /\ nOps' = IF lastOp.op = "display" THEN nOps ELSE nOps + 1
    /\ \E L \in {displayBegin(CurS, queueForNext)} :
           /\ top' = L.S.top
           /\ indi' = L.S.indi
           /\ fam' = L.S.fam
           /\ queueForNext' = L.q
           /\ orderInLevel' = IF L.S.err THEN orderInLevel ELSE <<>>
           /\ pc' = IF L.S.err THEN "idle" ELSE "layout"
           /\ raised' = L.S.err
           /\ lastOp' = DisplayOp
    /\ UNCHANGED <<fileVars, walk, undoVars>>

\* element.visited of the element at the head of the queue
HeadVisited ==
    IF Head(queueForNext)[1] = "FAM" THEN fam[Head(queueForNext)[2]].visited
    ELSE indi[Head(queueForNext)[2]].visited

\* one turn of the loop of calculateDisplayPositions
LayoutStep ==
    /\ pc = "layout"
    /\ Len(queueForNext) > 0
    /\ UNCHANGED <<fileVars, walk, undoVars>>
    /\ IF HeadVisited
       THEN /\ queueForNext' = Tail(queueForNext)
            /\ UNCHANGED <<top, indi, fam, orderInLevel, pc, raised, lastOp, nOps>>
       ELSE \E L \in {visitElement(CurS, Tail(queueForNext), orderInLevel,
                                     Head(queueForNext))} :
                /\ top' = L.S.top
                /\ indi' = L.S.indi
                /\ fam' = L.S.fam
                /\ queueForNext' = L.q
                /\ orderInLevel' = L.o
                /\ pc' = IF L.S.err THEN "idle" ELSE "layout"
                /\ raised' = L.S.err
                /\ UNCHANGED <<lastOp, nOps>>

\* the queue is empty: resetRowLevel, display() returns orderInLevel
LayoutEnd ==
    /\ pc = "layout"
    /\ Len(queueForNext) = 0
    /\ \E R \in {resetRowLevel(CurS, orderInLevel)} :
           /\ top' = R.S.top
           /\ indi' = R.S.indi
           /\ fam' = R.S.fam
           /\ orderInLevel' = R.o
           /\ pc' = "idle"
           /\ UNCHANGED <<queueForNext, raised, lastOp, nOps>>
    /\ UNCHANGED <<fileVars, walk, undoVars>>

Layout == DisplayBegin \/ LayoutStep \/ LayoutEnd

Next ==
    \/ \E h \in SelectableIndi, g \in Genders : addSpouse(h, g)
    \/ \E h \in SelectableIndi, g \in Genders : addSiblingOp(h, g)
    \/ \E h \in SelectableIndi : addParents(h)
    \/ \E h \in SelectableIndi, g \in Genders : addChild(h, g)
    \/ \E f \in SelectableFam, g \in Genders : addChildFam(f, g)
    \/ \E h \in SelectableIndi : deleteIndividual(h)
    \/ \E f \in SelectableFam : deleteFamily(f)
    \/ DisplayBegin
    \/ LayoutStep
    \/ LayoutEnd

Spec == Init /\ [][Next]_vars

NextLayout == DisplayBegin \/ LayoutStep \/ LayoutEnd

SpecLayout == InitLayout /\ [][NextLayout]_vars

\* display() runs to its end once called: the while loop of
\* calculateDisplayPositions takes its next turn as long as the queue holds
\* an entry, and resetRowLevel follows the loop
SpecLayoutFair == SpecLayout /\ WF_vars(LayoutStep) /\ WF_vars(LayoutEnd)

\* a loaded file with a married couple: family @F2@ has one HUSB and one
\* WIFE, two of the individuals; family @F1@ lists any of the individuals
\* as CHIL and the others than the couple as HUSB or WIFE, within the bound
InitCouple ==
    \E h \in 1..CoupleIndi, w \in 1..CoupleIndi :
        /\ h # w
        /\ \E links \in SubsetsUpTo(((1..CoupleIndi) \X {1} \X {"CHIL"})
                                     \cup (((1..CoupleIndi) \ {h, w}) \X {1} \X {"HUSB", "WIFE"}),
                                     OriginLinks) :
               Started(parse(GraphLines(CoupleIndi, 2,
                                        links \cup {<<h, 2, "HUSB">>, <<w, 2, "WIFE">>})))

SpecCouple == InitCouple /\ [][NextLayout]_vars

\* a loaded file is shown and parents are added to its individuals
NextParents ==
    \/ \E h \in SelectableIndi : addParents(h)
    \/ DisplayBegin
    \/ LayoutStep
    \/ LayoutEnd

SpecParents == InitLayout /\ [][NextParents]_vars

\* ------------------------------------------------------- root discovery
\* findParentOfParent is called on an individual of a loaded tree whose
\* maps are built; the file may lack the record of family @F1@
InitWalk ==
    /\ \E nI \in 1..GraphIndi, nF \in 0..GraphFam, skipF \in 0..1 :
           \E links \in SubsetsUpTo((1..nI) \X (1..nF) \X Roles, MaxLinks) :
               \E T \in {updateMapsForDisplay(
                             parse(DanglingLines(nI, nF, links, 0, skipF)))} :
                   /\ top = T.top
                   /\ indi = T.indi
                   /\ fam = T.fam
                   /\ \E h \in MapValues(T.top.indviduals) :
                          walk = [node |-> h, steps |-> 0, status |-> "walking"]
    /\ queueForNext = <<>>
    /\ orderInLevel = <<>>
    /\ pc = "walk"
    /\ raised = FALSE
    /\ lastOp = [op |-> "findParentOfParent", arg |-> 0]
    /\ nOps = 0
    /\ NoFile
    /\ NoHistory

\* the recursive call on the father: one more frame on the stack
WalkToFather ==
    /\ walk.status = "walking"
    /\ walk.steps < StackDepth
    /\ fatherOf(CurS, walk.node) > 0
    /\ walk' = [node |-> fatherOf(CurS, walk.node), steps |-> walk.steps + 1,
                status |-> "walking"]
    /\ UNCHANGED <<top, indi, fam, queueForNext, orderInLevel, pc, raised, lastOp, nOps>>
    /\ UNCHANGED <<fileVars, undoVars>>

\* no FAMC, or no father that resolves: currentNode is returned
WalkReturns ==
    /\ walk.status = "walking"
    /\ fatherOf(CurS, walk.node) = 0
    /\ walk' = [walk EXCEPT !.status = "returned"]
    /\ UNCHANGED <<top, indi, fam, queueForNext, orderInLevel, pc, raised, lastOp, nOps>>
    /\ UNCHANGED <<fileVars, undoVars>>

\* getIdFromNode raises: the FAMC family is not in the map, or an array is empty
WalkRaises ==
    /\ walk.status = "walking"
    /\ fatherOf(CurS, walk.node) = -1
    /\ walk' = [walk EXCEPT !.status = "TypeError"]
    /\ raised' = TRUE
    /\ UNCHANGED <<top, indi, fam, queueForNext, orderInLevel, pc, lastOp, nOps>>
    /\ UNCHANGED <<fileVars, undoVars>>

\* the stack is exhausted: the call on the father raises a RangeError (an
\* engine that reuses the frame of a tail call goes on without end instead)
WalkOverflows ==
    /\ walk.status = "walking"
    /\ walk.steps = StackDepth
    /\ fatherOf(CurS, walk.node) > 0
    /\ walk' = [walk EXCEPT !.status = "RangeError"]
    /\ raised' = TRUE
    /\ UNCHANGED <<top, indi, fam, queueForNext, orderInLevel, pc, lastOp, nOps>>
    /\ UNCHANGED <<fileVars, undoVars>>

\* a loaded file that lacks the record of one individual or of one family
InitDangling ==
    \E nI \in 1..GraphIndi, nF \in 1..GraphFam :
        \E links \in SubsetsUpTo((1..nI) \X (1..nF) \X Roles, MaxLinks) :
            \E skipI \in 0..nI, skipF \in 0..nF :
                /\ (skipI = 0) # (skipF = 0)
                /\ Started(parse(DanglingLines(nI, nF, links, skipI, skipF)))

SpecDangling == InitDangling /\ [][NextLayout]_vars

NextWalk == WalkToFather \/ WalkReturns \/ WalkRaises \/ WalkOverflows

SpecWalk == InitWalk /\ [][NextWalk]_vars

\* ------------------------------------------------------- files to parse
\* the lines a file is drawn from: level 0..2, an id before the tag or not,
\* a tag of the level, and no value, a text or a reference; a line of one
\* token; an empty line
TagsAt(level) ==
    IF level = 0 THEN {"INDI"} ELSE IF level = 1 THEN {"BIRT", "FAMS"} ELSE {"DATE"}

Values == {<<>>, <<"text">>, <<"@F1@">>}

WellFormedLines ==
    UNION {{<<level, tag>> \o value : tag \in TagsAt(level), value \in Values}
           \cup {<<level, "@X1@", tag>> \o value :
                     tag \in TagsAt(level), value \in Values \ {<<"@F1@">>}}
           : level \in 0..2}

MalformedLines == {<<1>>}

BlankLines == {<<>>}

FileLines == WellFormedLines \cup MalformedLines \cup BlankLines

\* a line is at most one level below the line before it (blank lines apart),
\* the first line at level 0
RECURSIVE LevelsStepDown(_, _, _)
LevelsStepDown(lines, k, above) ==
    IF k > Len(lines) THEN TRUE
    ELSE IF Len(lines[k]) = 0 THEN LevelsStepDown(lines, k + 1, above)
    ELSE lines[k][1] <= above + 1 /\ LevelsStepDown(lines, k + 1, lines[k][1])

Files ==
    {lines \in UNION {[1..n -> FileLines] : n \in 0..MaxLines} :
        LevelsStepDown(lines, 1, -1)}

\* a file is loaded: document.dataUnparsed is set, nothing is parsed yet
InitParse ==
    /\ dataUnparsed \in Files
    /\ dataParsed = <<>>
    /\ fileContent = <<>>
    /\ dataReparsed = <<>>
    /\ pc = "loaded"
    /\ top = EmptyTop
    /\ indi = <<>>
    /\ fam = <<>>
    /\ queueForNext = <<>>
    /\ orderInLevel = <<>>
    /\ raised = FALSE
    /\ lastOp = [op |-> "load", arg |-> 0]
    /\ nOps = 0
    /\ walk = NoWalk
    /\ NoHistory

\* parse() on the loaded lines
ParseFile ==
    /\ pc = "loaded"
    /\ dataParsed' = parseFile(dataUnparsed)
    /\ pc' = "parsed"
    /\ UNCHANGED <<dataUnparsed, fileContent, dataReparsed>>
    /\ UNCHANGED <<treeVars, walk, undoVars>>

\* gedcomExport: createFileContent on the parsed tree
ExportFile ==
    /\ pc = "parsed"
    /\ fileContent' = createFileContent(dataParsed)
    /\ pc' = "exported"
    /\ UNCHANGED <<dataUnparsed, dataParsed, dataReparsed>>
    /\ UNCHANGED <<treeVars, walk, undoVars>>

\* the exported file is loaded and parsed again
ImportFile ==
    /\ pc = "exported"
    /\ dataReparsed' = parseFile(fileContent)
    /\ pc' = "imported"
    /\ UNCHANGED <<dataUnparsed, dataParsed, fileContent>>
    /\ UNCHANGED <<treeVars, walk, undoVars>>

NextParse == ParseFile \/ ExportFile \/ ImportFile

SpecParse == InitParse /\ [][NextParse]_vars

\* ------------------------------------------------------- lines to format
\* the tokens a line is drawn from: two references, a tag and a word
Tokens == RefTokens \cup {"NOTE", "text"}

\* a line: a level and one to MaxTokens tokens
Lines ==
    {<<level>> \o tokens :
        level \in 0..1, tokens \in UNION {[1..n -> Tokens] : n \in 1..MaxTokens}}

\* one line is read: document.dataUnparsed holds it, nothing is formatted yet
InitFormat ==
    /\ \E line \in Lines : dataUnparsed = <<line>>
    /\ dataParsed = <<>>
    /\ fileContent = <<>>
    /\ dataReparsed = <<>>
    /\ pc = "line"
    /\ top = EmptyTop
    /\ indi = <<>>
    /\ fam = <<>>
    /\ queueForNext = <<>>
    /\ orderInLevel = <<>>
    /\ raised = FALSE
    /\ lastOp = [op |-> "load", arg |-> 0]
    /\ nOps = 0
    /\ walk = NoWalk
    /\ NoHistory

\* formatLine on the line: the record it returns
FormatLine ==
    /\ pc = "line"
    /\ dataParsed' = <<formatLine(dataUnparsed[1])>>
    /\ pc' = "formatted"
    /\ UNCHANGED <<dataUnparsed, fileContent, dataReparsed>>
    /\ UNCHANGED <<treeVars, walk, undoVars>>

NextFormat == FormatLine

SpecFormat == InitFormat /\ [][NextFormat]_vars

\* ============================================================ undo history
\* undo_state.js keeps two stacks of GEDCOM texts.  The text itself lives in
\* the editor: the state manager reads it with getGedcomTextFn and replaces
\* it with importGedcomTextFn, the two functions initStateManager is given.
MAX_HISTORY == 30

\* the text of a file that holds the one individual @Ik@
Text(k) == "0 @I" \o ToString(k) \o "@ INDI"

\* what the editor can make of its tree between two calls: no text, a text
\* of fewer than ten characters, or a file the history has not seen yet
EditedTexts == {"", "0 TRLR", Text(MAX_HISTORY + 2), Text(MAX_HISTORY + 3)}

Descriptions == {"Add child", "Delete individual"}

\* which of the injected calls raises during one call of the state manager:
\* none, getGedcomTextFn, importGedcomTextFn before or after it has replaced
\* the text, or a listener called by notifyListeners
Raises == {"none", "get", "importBefore", "importAfter", "listener"}

\* the history as one value: H.gedcomText is what getGedcomTextFn returns
CurH ==
    [undoStack |-> undoStack, redoStack |-> redoStack,
     gedcomText |-> gedcomText, initialised |-> initialised,
     returned |-> returned]

\* an entry of a stack; the timestamp is never read back and is left out
Entry(description, text) == [description |-> description, text |-> text]

Last(stack) == stack[Len(stack)]

\* Array.pop leaves the entries below the top
Front(stack) == SubSeq(stack, 1, Len(stack) - 1)

\* the text the editor holds after importGedcomTextFn(text)
importGedcomTextFn(current, text, raises) ==
    IF raises = "importBefore" THEN current ELSE text

\* while (undoStack.length > MAX_HISTORY) undoStack.shift()
RECURSIVE limitHistory(_)
limitHistory(stack) ==
    IF Len(stack) > MAX_HISTORY THEN limitHistory(Tail(stack)) ELSE stack

initStateManager(H) == [H EXCEPT !.initialised = TRUE, !.returned = "undefined"]

\* a saveSnapshot that never drops an entry
saveSnapshotUnlimited(H, description, raises) ==
    IF ~H.initialised \/ raises = "get"
           \/ H.gedcomText = "" \/ Len(H.gedcomText) < 10
    THEN [H EXCEPT !.returned = "undefined"]
    ELSE IF Len(H.undoStack) > 0 /\ Last(H.undoStack).text = H.gedcomText
    THEN [H EXCEPT !.returned = "undefined"]
    ELSE [H EXCEPT
             !.undoStack = Append(H.undoStack, Entry(description, H.gedcomText)),
             !.redoStack = <<>>,
             !.returned = "undefined"]

saveSnapshot(H, description, raises) ==
    IF ~H.initialised
    THEN [H EXCEPT !.returned = "undefined"]
    ELSE IF raises = "get"
    THEN [H EXCEPT !.returned = "undefined"]
    ELSE IF H.gedcomText = "" \/ Len(H.gedcomText) < 10
    THEN [H EXCEPT !.returned = "undefined"]
    ELSE IF Len(H.undoStack) > 0 /\ Last(H.undoStack).text = H.gedcomText
    THEN [H EXCEPT !.returned = "undefined"]
    ELSE [H EXCEPT
             !.undoStack = limitHistory(
                 Append(H.undoStack, Entry(description, H.gedcomText))),
             !.redoStack = <<>>,
             !.returned = "undefined"]

undo(H, raises) ==
    IF Len(H.undoStack) = 0 \/ ~H.initialised
    THEN [H EXCEPT !.returned = "false"]
    ELSE IF raises = "get"
    THEN [H EXCEPT !.returned = "false"]
    ELSE [H EXCEPT
             !.undoStack = Front(H.undoStack),
             !.redoStack = Append(H.redoStack,
                 Entry(Last(H.undoStack).description, H.gedcomText)),
             !.gedcomText = importGedcomTextFn(
                 H.gedcomText, Last(H.undoStack).text, raises),
             !.returned = IF raises = "none" THEN "true" ELSE "false"]

\* a redo that puts the text it restores, not the current one, on the undo
\* stack
redoPushesRestored(H, raises) ==
    IF Len(H.redoStack) = 0 \/ ~H.initialised \/ raises = "get"
    THEN [H EXCEPT !.returned = "false"]
    ELSE [H EXCEPT
             !.redoStack = Front(H.redoStack),
             !.undoStack = Append(H.undoStack,
                 Entry(Last(H.redoStack).description, Last(H.redoStack).text)),
             !.gedcomText = importGedcomTextFn(
                 H.gedcomText, Last(H.redoStack).text, raises),
             !.returned = IF raises = "none" THEN "true" ELSE "false"]

redo(H, raises) ==
    IF Len(H.redoStack) = 0 \/ ~H.initialised
    THEN [H EXCEPT !.returned = "false"]
    ELSE IF raises = "get"
    THEN [H EXCEPT !.returned = "false"]
    ELSE [H EXCEPT
             !.redoStack = Front(H.redoStack),
             !.undoStack = Append(H.undoStack,
                 Entry(Last(H.redoStack).description, H.gedcomText)),
             !.gedcomText = importGedcomTextFn(
                 H.gedcomText, Last(H.redoStack).text, raises),
             !.returned = IF raises = "none" THEN "true" ELSE "false"]

clearHistory(H) ==
    [H EXCEPT !.undoStack = <<>>, !.redoStack = <<>>, !.returned = "undefined"]

\* one call of the state manager, or one edit, is made
HistoryStep(op, H) ==
    /\ nOps < MaxCalls
    /\ undoStack' = H.undoStack
    /\ redoStack' = H.redoStack
    /\ gedcomText' = H.gedcomText
    /\ initialised' = H.initialised
    /\ returned' = H.returned
    /\ lastOp' = [op |-> op, arg |-> 0]
    /\ nOps' = nOps + 1
    /\ UNCHANGED <<top, indi, fam, queueForNext, orderInLevel, pc, raised>>
    /\ UNCHANGED <<fileVars, walk>>

\* the snapshots of n successive texts are on the undo stack, and the editor
\* holds the last of them or the text of one more edit; before
\* initStateManager nothing can have been saved
InitHistory ==
    /\ \E n \in 0..MAX_HISTORY :
           /\ undoStack = [k \in 1..n |-> Entry("Add child", Text(k))]
           /\ gedcomText \in {Text(n), Text(n + 1)}
           /\ initialised \in IF n = 0 THEN BOOLEAN ELSE {TRUE}
    /\ redoStack = <<>>
    /\ returned = "undefined"
    /\ top = EmptyTop
    /\ indi = <<>>
    /\ fam = <<>>
    /\ queueForNext = <<>>
    /\ orderInLevel = <<>>
    /\ pc = "history"
    /\ raised = FALSE
    /\ lastOp = [op |-> "load", arg |-> 0]
    /\ nOps = 0
    /\ NoFile
    /\ walk = NoWalk

InitStateManager == HistoryStep("initStateManager", initStateManager(CurH))

\* the editor changes its tree: getGedcomTextFn returns another text
EditText ==
    \E text \in EditedTexts :
        HistoryStep("edit", [CurH EXCEPT !.gedcomText = text,
                                         !.returned = "undefined"])

SaveSnapshot ==
    \E description \in Descriptions, raises \in {"none", "get", "listener"} :
        HistoryStep("saveSnapshot", saveSnapshot(CurH, description, raises))

Undo == \E raises \in Raises : HistoryStep("undo", undo(CurH, raises))

Redo == \E raises \in Raises : HistoryStep("redo", redo(CurH, raises))

ClearHistory == HistoryStep("clearHistory", clearHistory(CurH))

NextHistory ==
    \/ InitStateManager
    \/ EditText
    \/ SaveSnapshot
    \/ Undo
    \/ Redo
    \/ ClearHistory

SpecHistory == InitHistory /\ [][NextHistory]_vars

\* ======================================================== claims: deletion
\* the tree without the transient layout fields of its records
Shape(S) ==
    [top |-> S.top,
     indi |-> [h \in DOMAIN S.indi |->
                  [S.indi[h] EXCEPT !.visited = FALSE, !.rowLevel = NOT_SET]],
     fam |-> [h \in DOMAIN S.fam |->
                 [S.fam[h] EXCEPT !.visited = FALSE, !.rowLevel = NOT_SET]]]

\* the 16 lines of Scenario A
ScenarioALines ==
    << Line(0, 1, "INDI", ""), Line(1, 0, "NAME", "You"),
       Line(1, 0, "SEX", "M"), Line(1, 1, "FAMC", ""),
       Line(0, 2, "INDI", ""), Line(1, 0, "NAME", "Father"),
       Line(1, 0, "SEX", "M"), Line(1, 1, "FAMS", ""),
       Line(0, 3, "INDI", ""), Line(1, 0, "NAME", "Mother"),
       Line(1, 0, "SEX", "F"), Line(1, 1, "FAMS", ""),
       Line(0, 1, "FAM", ""), Line(1, 2, "HUSB", ""),
       Line(1, 3, "WIFE", ""), Line(1, 1, "CHIL", "") >>

ScenarioATree == Bind(parse(ScenarioALines), LAMBDA t : Shape(updateMapsForDisplay(t)))

OnScenarioA == Shape(CurS) = ScenarioATree

\* the members of a family record: the ids of its HUSB, WIFE and CHIL entries
Members(f) == Range(f.HUSB.ids) \cup Range(f.WIFE.ids) \cup Range(f.CHIL.ids)

\* the families of the graph: in the families map or in the root's FAM slot
FamiliesPresent(t) == MapValues(t.families) \cup Range(t.FAM.items)

IndividualsPresent(t) == MapValues(t.indviduals) \cup Range(t.INDI.items)

\* this step is a call of the handler `op` that ran to its end
Completes(op) == nOps' = nOps + 1 /\ lastOp'.op = op /\ ~raised'

\* every FAMC/FAMS entry names a family of the map and every HUSB/WIFE/CHIL
\* entry names an individual of the map
RefIntegrity(t, is, fs) ==
    /\ \A h \in MapValues(t.indviduals) :
           Range(is[h].FAMC.ids) \cup Range(is[h].FAMS.ids) \subseteq MapKeys(t.families)
    /\ \A f \in MapValues(t.families) :
           Members(fs[f]) \subseteq MapKeys(t.indviduals)

\* the maps hold exactly the records of the root's INDI / FAM slots, and no
\* record that is left refers to an id that is gone
DeleteConsistent ==
    /\ MapValues(top.indviduals) = Range(top.INDI.items)
    /\ MapValues(top.families) = Range(top.FAM.items)
    /\ RefIntegrity(top, indi, fam)

\* C1 (as claimed): once deleteIndividual(x) has completed, every family
\* whose only member was x is gone from the families map and from the
\* root's FAM collection, wherever those families stand in the FAM sequence.
C1_CascadeConsistency ==
    [][Completes("deleteIndividual") =>
          \A f \in FamiliesPresent(top) :
              Members(fam[f]) = {indi[lastOp'.arg].id} =>
                  /\ ~MapHas(top'.families, fam[f].id)
                  /\ f \notin Range(top'.FAM.items)]_vars

\* C2 (as claimed): once deleteIndividual(x) has completed, x's id is not a
\* key of the individuals map and no family still present lists x's id
\* under HUSB, WIFE or CHIL.
C2_NoReferenceToDeleted ==
    (pc = "idle" /\ lastOp.op = "deleteIndividual" /\ ~raised) =>
        /\ ~MapHas(top.indviduals, indi[lastOp.arg].id)
        /\ \A f \in FamiliesPresent(top) : indi[lastOp.arg].id \notin Members(fam[f])

\* C3 (as claimed): an add or delete operation that completes on a graph
\* without dangling ids leaves a graph without dangling ids.
C3_ReferentialIntegrity ==
    [][(nOps' = nOps + 1 /\ lastOp'.op # "display" /\ ~raised'
           /\ RefIntegrity(top, indi, fam))
       => RefIntegrity(top', indi', fam')]_vars

\* C4 (as claimed): on the tree of Scenario A, deleteIndividual(@I2@) ends
\* with @I2@ out of the individuals map, @F1@ still in the families map,
\* no HUSB entry for @I2@ in @F1@, and @F1@'s WIFE @I3@ and CHIL @I1@ kept.
C4_ScenarioC ==
    [][(OnScenarioA /\ nOps' = nOps + 1 /\ lastOp' = [op |-> "deleteIndividual", arg |-> 2])
       => /\ ~MapHas(top'.indviduals, 2)
          /\ MapHas(top'.families, 1)
          /\ 2 \notin Range(fam'[1].HUSB.ids)
          /\ fam'[1].WIFE.ids = <<3>>
          /\ fam'[1].CHIL.ids = <<1>>]_vars

\* C5 (as claimed): deleteIndividual and deleteFamily never raise, and at
\* their end the maps, the root's INDI/FAM collections and the relationship
\* entries agree, also when the root holds one FAM record or none.
C5_DeleteNeverRaises ==
    (pc = "idle" /\ lastOp.op \in {"deleteIndividual", "deleteFamily"}) =>
        (~raised /\ DeleteConsistent)

\* ========================================================== claims: layout
\* display() has returned its row map and nothing was changed since
LayoutDone == pc = "idle" /\ lastOp.op = "display" /\ ~raised

\* the records a row map holds, and the key of the first row holding one
Placed == UNION {Range(orderInLevel[k][2]) : k \in 1..Len(orderInLevel)}

RowKeys == {orderInLevel[k][1] : k \in 1..Len(orderInLevel)}

RowKeyOf(rec) ==
    orderInLevel[CHOOSE k \in 1..Len(orderInLevel) : rec \in Range(orderInLevel[k][2])][1]

\* how often a record stands in the rows of the map
Occurrences(rec) ==
    Cardinality({<<k, j>> \in (1..Len(orderInLevel)) \X (1..(Len(indi) + Len(fam))) :
                    /\ j <= Len(orderInLevel[k][2])
                    /\ orderInLevel[k][2][j] = rec})

RowLevelOf(rec) ==
    IF rec[1] = "FAM" THEN fam[rec[2]].rowLevel ELSE indi[rec[2]].rowLevel

\* the entries of a field that resolve in a map, as record references
ResolveFam(ids) ==
    {FamRef(MapGet(top.families, id)) : id \in {x \in Range(ids) : MapHas(top.families, x)}}

ResolveIndi(ids) ==
    {IndiRef(MapGet(top.indviduals, id)) : id \in {x \in Range(ids) : MapHas(top.indviduals, x)}}

\* the neighbours of a record with the generation offset the entry stands
\* for: spouse and family 0, child +1, family as child -1
Edges(rec) ==
    IF rec[1] = "FAM"
    THEN {<<r, 0>> : r \in ResolveIndi(fam[rec[2]].HUSB.ids) \cup ResolveIndi(fam[rec[2]].WIFE.ids)}
         \cup {<<r, 1>> : r \in ResolveIndi(fam[rec[2]].CHIL.ids)}
    ELSE {<<r, 0>> : r \in ResolveFam(indi[rec[2]].FAMS.ids)}
         \cup {<<r, -1>> : r \in ResolveFam(indi[rec[2]].FAMC.ids)}

\* the anchor display() starts from (0: none, -1: the walk raises)
Anchor ==
    findParentOfParent(CurS,
                       IF Len(top.indviduals) > 0 THEN top.indviduals[1][2] ELSE 0,
                       Len(indi) + 1)

RECURSIVE ReachFrom(_)
ReachFrom(R) ==
    LET N == R \cup UNION {{e[1] : e \in Edges(r)} : r \in R}
    IN  IF N = R THEN R ELSE ReachFrom(N)

\* the records reachable from the anchor
Reachable == IF Anchor > 0 THEN ReachFrom({IndiRef(Anchor)}) ELSE {}

\* the generations of the reachable records relative to the anchor: the
\* pairs <<record, generation>> reached along the entries, up to the first
\* record that gets two generations
Conflict(G) == \E p \in G, q \in G : p[1] = q[1] /\ p[2] # q[2]

RECURSIVE Generations(_)
Generations(G) ==
    LET N == G \cup UNION {{<<e[1], p[2] + e[2]>> : e \in Edges(p[1])} : p \in G}
    IN  IF Conflict(G) \/ N = G THEN G ELSE Generations(N)

\* the tree admits one generation per reachable record (no marriage
\* between relatives of different generations)
GenerationConsistent ==
    Anchor > 0 => ~Conflict(Generations({<<IndiRef(Anchor), 0>>}))

PlacedIndi == {r \in Placed : r[1] = "INDI"}

PlacedFam == {r \in Placed : r[1] = "FAM"}

\* C6 (as claimed): after a completed layout run every placed individual is
\* one row below each placed family its FAMC entries resolve to.
C6_RowMonotonicity ==
    LayoutDone =>
        \A x \in PlacedIndi : \A f \in ResolveFam(indi[x[2]].FAMC.ids) \cap Placed :
            RowKeyOf(f) = RowKeyOf(x) - 1

\* C6 on the trees that admit one generation per reachable record: the rows
\* of a freshly loaded tree of that kind do satisfy it.
C6_RowMonotonicityConsistent == GenerationConsistent => C6_RowMonotonicity

\* C7: after a completed layout run every record reachable from the anchor
\* stands exactly once in the row map, in the row of its rowLevel, and no
\* record stands twice.
C7_PlacedOnce ==
    LayoutDone =>
        /\ \A r \in Reachable : Occurrences(r) = 1 /\ RowKeyOf(r) = RowLevelOf(r)
        /\ \A r \in Placed : Occurrences(r) = 1

\* a run placed a family together with two of its members
C7_Witness ==
    /\ LayoutDone
    /\ \E f \in PlacedFam : Cardinality(Reachable) >= 3 /\ f \in Reachable

\* C8: after a layout run that placed a record, the smallest row key is 0
\* and the smallest rowLevel of a placed record is 0.
C8_RowZero ==
    (LayoutDone /\ Placed # {}) =>
        /\ 0 \in RowKeys /\ \A k \in RowKeys : k >= 0
        /\ \E r \in Placed : RowLevelOf(r) = 0
        /\ \A r \in Placed : RowLevelOf(r) >= 0

\* a run placed records in two rows, one of them above the anchor's
C8_Witness ==
    /\ LayoutDone
    /\ Cardinality(RowKeys) >= 2
    /\ Anchor > 0 /\ IndiRef(Anchor) \in Placed /\ RowLevelOf(IndiRef(Anchor)) > 0

\* C9: the layout of Scenario A's tree is row 0 = @I2@, @F1@, @I3@ and
\* row 1 = @I1@, and nothing else.
C9_ScenarioA ==
    (LayoutDone /\ OnScenarioA) =>
        /\ RowKeys = {0, 1}
        /\ Range(RowOf(orderInLevel, 0)) = {FamRef(1), IndiRef(2), IndiRef(3)}
        /\ Len(RowOf(orderInLevel, 0)) = 3
        /\ RowOf(orderInLevel, 1) = <<IndiRef(1)>>
        /\ Len(orderInLevel) = 2

C9_Witness == LayoutDone /\ OnScenarioA /\ Placed # {}

\* C10 (as claimed): after a completed layout run every placed family is in
\* the row of each of its placed HUSB and WIFE individuals.
C10_SpousesShareRow ==
    LayoutDone =>
        \A f \in PlacedFam :
            \A x \in (ResolveIndi(fam[f[2]].HUSB.ids) \cup ResolveIndi(fam[f[2]].WIFE.ids)) \cap Placed :
                RowKeyOf(x) = RowKeyOf(f)

\* C10 on the trees that admit one generation per reachable record: the
\* rows of a freshly loaded tree of that kind do satisfy it.
C10_SpousesShareRowConsistent == GenerationConsistent => C10_SpousesShareRow

\* ===================================================== claims: file format
\* the records of a tree: each with the property names and positions that
\* lead to it from the root, its id, its tag and its value
RECURSIVE RecordsUnder(_, _, _)
RecordsUnder(H, n, path) ==
    UNION {UNION {{<<Append(path, <<H[n].props[i].key, j>>),
                     H[H[n].props[i].items[j]].id,
                     H[H[n].props[i].items[j]].tag,
                     H[H[n].props[i].items[j]].value>>}
                  \cup RecordsUnder(H, H[n].props[i].items[j],
                                    Append(path, <<H[n].props[i].key, j>>))
                  : j \in 1..Len(H[n].props[i].items)}
           : i \in 1..Len(H[n].props)}

SameRecords(H1, H2) == RecordsUnder(H1, 1, <<>>) = RecordsUnder(H2, 1, <<>>)

\* every line of the loaded file has a level, a tag and at most one id
AllWellFormed == \A k \in 1..Len(dataUnparsed) : dataUnparsed[k] \in WellFormedLines

\* C11 (as claimed): the tree parsed from the export of a tree parsed from
\* well-formed lines has the same records (id, tag, value) under the same
\* parents, at the same place under every tag.
C11_RoundTrip ==
    (pc = "imported" /\ AllWellFormed) => SameRecords(dataParsed, dataReparsed)

\* parse() has run on the loaded file
Parsed == pc \in {"parsed", "exported", "imported"}

\* the most recent record before n whose level is smaller than n's (the
\* records of the heap stand in the order of their lines, the root first)
NearestAbove(H, n) ==
    CHOOSE m \in 1..(n - 1) :
        /\ H[m].level < H[n].level
        /\ \A k \in (m + 1)..(n - 1) : H[k].level >= H[n].level

\* the places <<record, property, position>> that hold the record n
Owners(H, n) ==
    {w \in (1..Len(H)) \X (1..Len(H)) \X (1..Len(H)) :
        /\ w[2] <= Len(H[w[1]].props)
        /\ w[3] <= Len(H[w[1]].props[w[2]].items)
        /\ H[w[1]].props[w[2]].items[w[3]] = n}

\* parent.KEY for a property that holds a single record (0 otherwise)
Child(H, n, key) ==
    IF n > 0 /\ propIndex(H[n].props, key, 1) > 0
         /\ ~H[n].props[propIndex(H[n].props, key, 1)].array
    THEN H[n].props[propIndex(H[n].props, key, 1)].items[1]
    ELSE 0

BirthDateLines == <<<<0, "INDI">>, <<1, "BIRT">>, <<2, "DATE", "text">>>>

\* C15: every record of a parsed file is attached under the most recent
\* record before it whose level is smaller than its own (the root at level
\* -1 when there is no other), it is held by that parent only, under its
\* tag, and "2 DATE text" after "1 BIRT" after an INDI line is
\* individual.BIRT.DATE with the value "text".
C15_ParentResolution ==
    Parsed =>
        /\ \A n \in 2..Len(dataParsed) :
               /\ dataParsed[n].parent = NearestAbove(dataParsed, n)
               /\ dataParsed[dataParsed[n].parent].level < dataParsed[n].level
               /\ Cardinality(Owners(dataParsed, n)) = 1
               /\ \A w \in Owners(dataParsed, n) :
                      /\ w[1] = dataParsed[n].parent
                      /\ dataParsed[w[1]].props[w[2]].key = propKey(dataParsed[n])
        /\ dataUnparsed = BirthDateLines =>
               /\ Child(dataParsed, Child(dataParsed, Child(dataParsed, 1, "INDI"), "BIRT"), "DATE") = 4
               /\ dataParsed[4].value = <<"text">>

\* a record was attached under a record that is neither the root nor the
\* record of the line before it
C15_Witness ==
    /\ Parsed
    /\ \E n \in 2..Len(dataParsed) : dataParsed[n].parent \notin {1, n - 1}

WithoutSkipped(lines) == SelectSeq(lines, LAMBDA line : line \in WellFormedLines)

\* C17 (as claimed): blank lines and lines of a single token add no record
\* and are not the lastElement of the lines after them: the tree is the
\* tree of the file without those lines.
C17_FailSoft ==
    Parsed => dataParsed = parseFile(WithoutSkipped(dataUnparsed))

\* C17 for blank lines alone: the tree is the tree of the file without them
C17_BlankLinesSkipped ==
    Parsed => dataParsed = parseFile(SelectSeq(dataUnparsed, LAMBDA line : line # <<>>))

\* ====================================================== claims: GraphIndex
\* one map entry <<id, record>> per record of a slot of the root
EntriesOf(objs, coll) ==
    [k \in 1..Len(coll.items) |-> <<objs[coll.items[k]].id, coll.items[k]>>]

\* C12: after display() rebuilt the maps, the individuals map holds one
\* entry per record of the root's INDI slot (a single record or an array),
\* keyed by its id, and the families map likewise for FAM; a slot that is
\* not set gives an empty map; rebuilding again gives the same maps.
C12_RebuildComplete ==
    lastOp.op = "display" =>
        /\ top.indviduals = EntriesOf(indi, top.INDI)
        /\ top.families = EntriesOf(fam, top.FAM)
        /\ top.INDI.kind = "absent" => top.indviduals = <<>>
        /\ top.FAM.kind = "absent" => top.families = <<>>
        /\ updateMapsForDisplay(CurS).top = top

\* the maps were rebuilt from a single INDI record and an array of FAM records
C12_Witness ==
    /\ lastOp.op = "display"
    /\ top.INDI.kind = "single" /\ Len(top.indviduals) = 1
    /\ top.FAM.kind = "array" /\ Len(top.families) = 2

\* the maps were rebuilt from a root without individuals
C12_WitnessEmpty ==
    lastOp.op = "display" /\ top.INDI.kind = "absent" /\ top.indviduals = <<>>

\* ======================================================= claims: mutations
\* the individual has no FAMS entry
NoFAMS(i) == ~(i.FAMS.has /\ Len(i.FAMS.ids) > 0)

\* this step is a call of addSpouse on an individual without FAMS
SpouseOfSingle ==
    /\ nOps' = nOps + 1
    /\ lastOp'.op = "addSpouse"
    /\ NoFAMS(indi[lastOp'.arg])

\* C13 (as claimed): addSpouse on an individual without FAMS creates one
\* family, enters it as the individual's FAMS, puts the individual in HUSB
\* when its SEX is 'M' and in WIFE otherwise, and the new partner in the
\* other slot whatever the partner's gender: one HUSB and one WIFE.
C13_ScenarioB ==
    [][SpouseOfSingle =>
          /\ Len(fam') = Len(fam) + 1
          /\ Len(top'.families) = Len(top.families) + 1
          /\ indi'[lastOp'.arg].FAMS.ids = <<fam'[Len(fam')].id>>
          /\ IF indi[lastOp'.arg].SEX = "M"
             THEN /\ fam'[Len(fam')].HUSB.ids = <<indi[lastOp'.arg].id>>
                  /\ fam'[Len(fam')].WIFE.ids = <<indi'[Len(indi')].id>>
             ELSE /\ fam'[Len(fam')].WIFE.ids = <<indi[lastOp'.arg].id>>
                  /\ fam'[Len(fam')].HUSB.ids = <<indi'[Len(indi')].id>>]_vars

\* C19 (as claimed): after any sequence of add and delete operations the
\* individuals of the tree have pairwise distinct ids and so have the
\* families, because a new id is never the id of a record that exists.
C19_IdsDistinct ==
    /\ \A a, b \in IndividualsPresent(top) : indi[a].id = indi[b].id => a = b
    /\ \A a, b \in FamiliesPresent(top) : fam[a].id = fam[b].id => a = b

\* C19, the allocation alone: the id of a created record is not a key of
\* the map of its kind as it was before the operation
C19_NewIdNotInMap ==
    [][/\ \A h \in (Len(indi) + 1)..Len(indi') : ~MapHas(top.indviduals, indi'[h].id)
       /\ \A f \in (Len(fam) + 1)..Len(fam') : ~MapHas(top.families, fam'[f].id)]_vars

\* the individuals that list the family id under FAMC or FAMS
Naming(t, is, id) ==
    {h \in IndividualsPresent(t) : id \in Range(is[h].FAMC.ids) \cup Range(is[h].FAMS.ids)}

\* the family f of the state before the step is gone after it: from the
\* map, from the root's FAM slot and from every individual's FAMC and FAMS
FamilyGone(f) ==
    /\ ~MapHas(top'.families, fam[f].id)
    /\ f \notin Range(top'.FAM.items)
    /\ Naming(top', indi', fam[f].id) = {}

\* C20 (as claimed): deleteFamily removes the family from the families map,
\* from the root's FAM collection and from every individual's FAMC/FAMS,
\* and so does the cascade of deleteIndividual for each family it removes
\* from the map; no individual other than the one selected is removed.
C20_DeleteFamilyFrame ==
    [][/\ (nOps' = nOps + 1 /\ lastOp'.op = "deleteFamily") =>
              /\ FamilyGone(lastOp'.arg)
              /\ IndividualsPresent(top') = IndividualsPresent(top)
              /\ top'.indviduals = top.indviduals
       /\ (nOps' = nOps + 1 /\ lastOp'.op = "deleteIndividual") =>
              /\ \A f \in FamiliesPresent(top) :
                     ~MapHas(top'.families, fam[f].id) /\ MapHas(top.families, fam[f].id)
                         => FamilyGone(f)
              /\ IndividualsPresent(top') = IndividualsPresent(top) \ {lastOp'.arg}]_vars

\* C20, the frame alone: a delete removes no individual but the selected one
C20_IndividualsKept ==
    [][/\ (nOps' = nOps + 1 /\ lastOp'.op = "deleteFamily") =>
              /\ IndividualsPresent(top') = IndividualsPresent(top)
              /\ top'.indviduals = top.indviduals
       /\ (nOps' = nOps + 1 /\ lastOp'.op = "deleteIndividual") =>
              IndividualsPresent(top') = IndividualsPresent(top) \ {lastOp'.arg}]_vars

\* ================================================== claims: root discovery
\* C14 (as claimed): the paternal walk stops at an individual without FAMC
\* or without a father that resolves, or gives up with an error after at
\* most MaxStep steps, also on a cyclic FAMC chain.
C14_WalkBounded == walk.steps <= MaxStep

\* the walk does stop at the top of a paternal line that has an end
C14_StopsAtTop ==
    walk.status = "returned" => fatherOf(CurS, walk.node) = 0

\* =============================================== claims: dangling references
\* an entry of a record in the maps names an id that is in neither map
Dangling ==
    \/ \E h \in MapValues(top.indviduals) :
           ~(Range(indi[h].FAMS.ids) \cup Range(indi[h].FAMC.ids) \subseteq MapKeys(top.families))
    \/ \E f \in MapValues(top.families) :
           ~(Members(fam[f]) \subseteq MapKeys(top.indviduals))

\* C18 (as claimed): a layout run on a tree with a dangling entry does not
\* raise, and when it has ended every record that is reachable from the
\* anchor without the missing id stands in a row.
C18_DanglingTolerated ==
    Dangling =>
        /\ ~raised
        /\ (pc = "idle" /\ lastOp.op = "display") => Reachable \subseteq Placed

\* ===================================================== claims: termination
\* the records of the heap, as references
AllRecords == {IndiRef(h) : h \in DOMAIN indi} \cup {FamRef(f) : f \in DOMAIN fam}

\* record.visited in the heap <<is, fs>>
VisitedIn(is, fs, rec) ==
    IF rec[1] = "FAM" THEN fs[rec[2]].visited ELSE is[rec[2]].visited

\* the loop of calculateDisplayPositions is about to take a turn
InLoop == pc = "layout" /\ Len(queueForNext) > 0

\* a turn of the loop: a visited record stays visited, the only record
\* that becomes visited is the one dequeued, a dequeued record that is
\* visited already is dropped and nothing else changes, and the entries
\* added behind the rest of the queue are records not visited
C21_TurnOfLoop ==
    [][InLoop =>
          /\ \A r \in AllRecords :
                 VisitedIn(indi, fam, r) => VisitedIn(indi', fam', r)
          /\ \A r \in AllRecords :
                 (~VisitedIn(indi, fam, r) /\ VisitedIn(indi', fam', r))
                     => r = Head(queueForNext)
          /\ VisitedIn(indi', fam', Head(queueForNext))
          /\ VisitedIn(indi, fam, Head(queueForNext)) =>
                 /\ queueForNext' = Tail(queueForNext)
                 /\ UNCHANGED <<top, indi, fam, orderInLevel>>
          /\ Len(queueForNext') >= Len(queueForNext) - 1
          /\ SubSeq(queueForNext', 1, Len(queueForNext) - 1) = Tail(queueForNext)
          /\ \A k \in Len(queueForNext)..Len(queueForNext') :
                 /\ ~VisitedIn(indi, fam, queueForNext'[k])
                 /\ ~VisitedIn(indi', fam', queueForNext'[k])]_vars

\* C21: the loop of the layout ends on every tree, cyclic ones included:
\* each record is marked visited at most once, a record is queued only
\* while it is not visited, a queue entry that is visited when dequeued is
\* skipped, and a run that entered the loop ends with the queue empty.
C21_LayoutTerminates ==
    /\ C21_TurnOfLoop
    /\ (pc = "layout") ~> (pc = "idle" /\ Len(queueForNext) = 0)

\* the loop is about to skip a record queued twice: an individual that is
\* both spouse and child of one family, or two spouses of two families
C21_Witness ==
    /\ InLoop
    /\ VisitedIn(indi, fam, Head(queueForNext))
    /\ Len(queueForNext) >= 2

\* ============================================================ claims: reset
\* the records of the two maps, as references
MapRecords ==
    {IndiRef(h) : h \in MapValues(top.indviduals)}
    \cup {FamRef(f) : f \in MapValues(top.families)}

\* C22 (as claimed): a layout run starts from visited = false and rowLevel
\* unset on every record, so at its end a record of the maps that stands
\* in no row has rowLevel unset, not the row of an earlier run.
C22_FullReset ==
    LayoutDone => \A r \in MapRecords \ Placed : RowLevelOf(r) = NOT_SET

\* C22, the visited flags alone: at the end of a run a record of the maps
\* that stands in no row is not visited
C22_VisitedReset ==
    LayoutDone => \A r \in MapRecords \ Placed : ~VisitedIn(indi, fam, r)

\* ================================================= claims: id and value
\* the tokens of the formatted line after its level
LineTokens == Tail(dataUnparsed[1])

\* the id the second token gives: the token when it starts with '@'
SecondTokenId ==
    IF startsWithAt(LineTokens[1]) THEN <<LineTokens[1]>> ELSE <<>>

\* the tokens after the tag
ValueTokens ==
    IF startsWithAt(LineTokens[1]) THEN SubSeq(LineTokens, 3, Len(LineTokens))
    ELSE SubSeq(LineTokens, 2, Len(LineTokens))

\* the value is one token of the form @...@
IsIdToken(tokens) == Len(tokens) = 1 /\ tokens[1] \in RefTokens

\* C23 (as claimed): the second token is the id only when it starts with
\* '@'; a value that is itself an id token @...@ becomes the id, in place
\* of the second token's, and the record has no value; any other value is
\* kept as the value and the id is the second token's.
C23_IdValuePrecedence ==
    pc = "formatted" =>
        IF IsIdToken(ValueTokens)
        THEN dataParsed[1].id = ValueTokens /\ dataParsed[1].value = <<>>
        ELSE dataParsed[1].id = SecondTokenId /\ dataParsed[1].value = ValueTokens

\* C23 for the values that hold no '@': the value is kept, the id is the
\* second token's
C23_PlainValueKept ==
    (pc = "formatted" /\ ~matchesReference(ValueTokens)) =>
        dataParsed[1].id = SecondTokenId /\ dataParsed[1].value = ValueTokens

\* C23 for the values that hold a reference anywhere: the whole value is
\* the id and the record has no value
C23_ValueWithReferenceIsId ==
    (pc = "formatted" /\ matchesReference(ValueTokens)) =>
        dataParsed[1].id = ValueTokens /\ dataParsed[1].value = <<>>

\* ============================================ claims: index kept in step
\* the two maps are the maps updateMapsForDisplay builds from the root's
\* INDI and FAM slots: the same keys with the same records
InStep(t, is, fs) ==
    /\ Range(t.indviduals) = Range(updateMapsForDisplay(Store(t, is, fs)).top.indviduals)
    /\ Range(t.families) = Range(updateMapsForDisplay(Store(t, is, fs)).top.families)
    /\ Len(t.indviduals) = Cardinality(MapKeys(t.indviduals))
    /\ Len(t.families) = Cardinality(MapKeys(t.families))

\* the records of the tree have pairwise distinct ids
IdsDistinctIn(t, is, fs) ==
    /\ \A a, b \in IndividualsPresent(t) : is[a].id = is[b].id => a = b
    /\ \A a, b \in FamiliesPresent(t) : fs[a].id = fs[b].id => a = b

\* the maps are in step with a tree of distinct ids
Indexed(t, is, fs) == InStep(t, is, fs) /\ IdsDistinctIn(t, is, fs)

\* this step is an add or a delete operation that ran to its end
EditCompletes == nOps' = nOps + 1 /\ lastOp'.op # "display" /\ ~raised'

\* C24: the maps of the first tree are those a rebuild gives, and an add
\* or delete operation that completes on a tree of distinct ids whose maps
\* are those a rebuild gives leaves such a tree: no sequence of completed
\* operations takes the maps out of step with the tree.
C24_IndexInStep ==
    /\ Indexed(top, indi, fam)
    /\ [][(EditCompletes /\ Indexed(top, indi, fam)) => Indexed(top', indi', fam')]_vars

\* the same with the entries in the same order
C24_IndexInOrder ==
    [][(EditCompletes /\ Indexed(top, indi, fam) /\ top = updateMapsForDisplay(CurS).top)
           => top' = updateMapsForDisplay(Store(top', indi', fam')).top]_vars

\* a delete completed and its cascade took a family out of the tree, after
\* an add had put a fourth individual and a second family into it
C24_Witness ==
    /\ pc = "idle" /\ lastOp.op = "deleteIndividual" /\ ~raised
    /\ Indexed(top, indi, fam)
    /\ Len(indi) >= 4 /\ Len(fam) >= 2
    /\ Len(top.families) < Len(fam)
    /\ Len(top.families) >= 1

\* ===================================================== claims: couple order
\* the position of a record in the row that holds it
PositionOf(rec) == IndexOf(RowOf(orderInLevel, RowKeyOf(rec)), rec, 1)

\* the families with one HUSB and one WIFE, two individuals of the map,
\* that stand in a row together with both
PlacedCouples ==
    {f \in PlacedFam :
        /\ Len(fam[f[2]].HUSB.ids) = 1 /\ Len(fam[f[2]].WIFE.ids) = 1
        /\ fam[f[2]].HUSB.ids[1] # fam[f[2]].WIFE.ids[1]
        /\ ResolveIndi(fam[f[2]].HUSB.ids) \cup ResolveIndi(fam[f[2]].WIFE.ids) \subseteq Placed
        /\ \A x \in ResolveIndi(fam[f[2]].HUSB.ids) \cup ResolveIndi(fam[f[2]].WIFE.ids) :
               RowKeyOf(x) = RowKeyOf(f)}

\* C25 (as claimed): after a completed layout run, in the row of a family
\* placed with its one HUSB and its one WIFE the HUSB stands left of the
\* family and the family left of the WIFE, in whatever order the three
\* were dequeued.
C25_CoupleOrder ==
    LayoutDone =>
        \A f \in PlacedCouples :
            /\ \A x \in ResolveIndi(fam[f[2]].HUSB.ids) : PositionOf(x) < PositionOf(f)
            /\ \A x \in ResolveIndi(fam[f[2]].WIFE.ids) : PositionOf(f) < PositionOf(x)

\* the couple of the family are both children of one family
BothChildrenOfOne(f) ==
    \E g \in MapValues(top.families) :
        {fam[f[2]].HUSB.ids[1], fam[f[2]].WIFE.ids[1]} \subseteq Range(fam[g].CHIL.ids)

\* C25 for the couples that are not brother and sister: HUSB, family, WIFE
C25_UnrelatedCoupleOrder ==
    LayoutDone =>
        \A f \in PlacedCouples :
            ~BothChildrenOfOne(f) =>
                /\ \A x \in ResolveIndi(fam[f[2]].HUSB.ids) : PositionOf(x) < PositionOf(f)
                /\ \A x \in ResolveIndi(fam[f[2]].WIFE.ids) : PositionOf(f) < PositionOf(x)

\* ================================================== claims: repeatability
\* C26 (as claimed): when a layout run has completed the queue is empty,
\* and a second display() on the tree as the run left it returns the same
\* row map, the same rows with the same records in the same order, and
\* leaves the queue empty again.
C26_Repeatable ==
    LayoutDone =>
        /\ queueForNext = <<>>
        /\ ~display(CurS, queueForNext, orderInLevel).S.err
        /\ display(CurS, queueForNext, orderInLevel).o = orderInLevel
        /\ display(CurS, queueForNext, orderInLevel).q = <<>>

\* C26, the queue alone: it is empty when a run has completed
C26_QueueEmptyAtEnd == LayoutDone => queueForNext = <<>>

\* C26 (as claimed), the start of a run: the queue holds nothing but the
\* anchor, no entry that an earlier run left behind
C26_QueueFreshAtStart ==
    [][(pc = "idle" /\ pc' = "layout") => Len(queueForNext') <= 1]_vars

\* ==================================================== claims: addParents
\* the family the first FAMC entry of the individual x names (0: none)
FirstFamc(t, is, x) ==
    IF is[x].FAMC.has /\ Len(is[x].FAMC.ids) > 0
    THEN MapGet(t.families, is[x].FAMC.ids[1])
    ELSE 0

\* this step is a call of addParents that ran to its end
AddParentsCompletes == nOps' = nOps + 1 /\ lastOp'.op = "addParents" /\ ~raised'

C27_OnEditedTrees ==
    [][(AddParentsCompletes
           /\ (FirstFamc(top, indi, lastOp'.arg) # 0 =>
                   indi[lastOp'.arg].id
                       \in Range(fam[FirstFamc(top, indi, lastOp'.arg)].CHIL.ids)))
       => indi'[lastOp'.arg].id
              \in Range(fam'[FirstFamc(top', indi', lastOp'.arg)].CHIL.ids)]_vars

\* C27 without the CHIL entry: the family has a HUSB and a WIFE and a
\* second addParents(x) changes nothing
C27_SecondCallChangesNothing ==
    [][AddParentsCompletes =>
          /\ FirstFamc(top', indi', lastOp'.arg) # 0
          /\ Len(fam'[FirstFamc(top', indi', lastOp'.arg)].HUSB.ids) >= 1
          /\ Len(fam'[FirstFamc(top', indi', lastOp'.arg)].WIFE.ids) >= 1
          /\ addParentsIfNotAvailable(lastOp'.arg, Store(top', indi', fam'))
                 = Store(top', indi', fam')]_vars

Called(fn) == lastOp'.op = fn /\ nOps' = nOps + 1

\* a saveSnapshot pushes an entry unless it returns early; the entry differs
\* from the top it is pushed on, so the stack is never the same afterwards
Records == Called("saveSnapshot") /\ undoStack' # undoStack

\* C28: the undo history is bounded.  Whatever calls of saveSnapshot, undo,
\* redo and clearHistory (and edits) are made, the undo stack holds at most
\* MAX_HISTORY entries before and after each of them; a saveSnapshot that
\* records a state puts the current text on top of the entries that were
\* there, without the oldest one when there were MAX_HISTORY already, and
\* leaves the redo stack empty.
C28_HistoryBounded ==
    [][/\ Len(undoStack) <= MAX_HISTORY
       /\ Len(undoStack') <= MAX_HISTORY
       /\ Records =>
              /\ Last(undoStack').text = gedcomText
              /\ Front(undoStack') = IF Len(undoStack) = MAX_HISTORY
                                     THEN Tail(undoStack)
                                     ELSE undoStack
              /\ redoStack' = <<>>]_vars

\* C28, the bound alone, in every state
C28_AtMostMaxHistory ==
    /\ Len(undoStack) <= MAX_HISTORY
    /\ Len(undoStack) + Len(redoStack) <= MAX_HISTORY

\* a snapshot was recorded on a full stack: the oldest text is gone, the
\* others have moved down and the new text is on top
C28_Witness ==
    /\ lastOp.op = "saveSnapshot"
    /\ Len(undoStack) = MAX_HISTORY
    /\ undoStack[1].text = Text(2)
    /\ Last(undoStack).text = Text(MAX_HISTORY + 1)
    /\ redoStack = <<>>

\* k calls of undo, and of redo, none of which raises
RECURSIVE undoTimes(_, _)
undoTimes(H, k) ==
    IF k = 0 THEN H
    ELSE Bind(undo(H, "none"), LAMBDA G : undoTimes(G, k - 1))

RECURSIVE redoTimes(_, _)
redoTimes(H, k) ==
    IF k = 0 THEN H
    ELSE Bind(redo(H, "none"), LAMBDA G : redoTimes(G, k - 1))

Texts(stack) == [i \in DOMAIN stack |-> stack[i].text]

\* G is H after k undos: the last one succeeded and imported the k-th text
\* from the top, and k entries have left the undo stack
ImportsSnapshot(H, G, k) ==
    /\ G.returned = "true"
    /\ G.gedcomText = H.undoStack[Len(H.undoStack) - k + 1].text
    /\ G.undoStack = SubSeq(H.undoStack, 1, Len(H.undoStack) - k)

\* G holds the text, the undo texts and the redo stack of H
Restored(H, G) ==
    /\ G.returned = "true"
    /\ G.gedcomText = H.gedcomText
    /\ Texts(G.undoStack) = Texts(H.undoStack)
    /\ G.redoStack = H.redoStack

\* k undos from H, then k redos
InverseAt(H, k) ==
    Bind(undoTimes(H, k),
         LAMBDA G : /\ ImportsSnapshot(H, G, k)
                    /\ Bind(redoTimes(G, k), LAMBDA R : Restored(H, R)))

\* C29: undo and redo are inverse.  In every state the state manager can be
\* in once it is initialised, with k entries on the undo stack, and for every
\* k' <= k: k' calls of undo that succeed, followed by k' calls of redo with
\* nothing in between, give back the current GEDCOM text, the texts of the
\* undo stack and the redo stack of that state; the j-th of these undos
\* imports the text of the j-th entry from the top of the undo stack.
C29_UndoRedoInverse ==
    initialised => \A k \in 1..Len(undoStack) : InverseAt(CurH, k)

\* C29, in the calls made: an undo that succeeds leaves the editor with the
\* text of the entry it popped and the redo stack with the text it replaced;
\* a redo that succeeds does the same the other way round
C29_EachCallRestores ==
    [][/\ (Called("undo") /\ returned' = "true") =>
              /\ gedcomText' = Last(undoStack).text
              /\ undoStack' = Front(undoStack)
              /\ Last(redoStack').text = gedcomText
       /\ (Called("redo") /\ returned' = "true") =>
              /\ gedcomText' = Last(redoStack).text
              /\ redoStack' = Front(redoStack)
              /\ Last(undoStack').text = gedcomText]_vars

\* four calls were made, the last a redo that succeeded, and the history is
\* the one the behaviour started from: thirty snapshots, the text of @I31@
\* in the editor and nothing to redo; every undo made has been redone
C29_Witness ==
    /\ lastOp.op = "redo"
    /\ returned = "true"
    /\ nOps = 4
    /\ gedcomText = Text(MAX_HISTORY + 1)
    /\ Texts(undoStack) = [k \in 1..MAX_HISTORY |-> Text(k)]
    /\ redoStack = <<>>

\* the step is an undo() or a redo() that returned false
Failed == (Called("undo") \/ Called("redo")) /\ returned' = "false"

\* C30: a failed undo or redo changes nothing.  Whenever undo() or redo()
\* returns false (empty stack, state manager not initialised, or an injected
\* function raising), the undo stack, the redo stack and the current GEDCOM
\* text are the same as before the call.
C30_FailedChangesNothing ==
    [][Failed => UNCHANGED <<undoStack, redoStack, gedcomText>>]_vars

\* C30, the two refusals: with nothing to pop, or before initStateManager,
\* the call returns false and changes nothing
C30_RefusedChangesNothing ==
    [][/\ (Called("undo") /\ (undoStack = <<>> \/ ~initialised)) =>
              /\ returned' = "false"
              /\ UNCHANGED <<undoStack, redoStack, gedcomText>>
       /\ (Called("redo") /\ (redoStack = <<>> \/ ~initialised)) =>
              /\ returned' = "false"
              /\ UNCHANGED <<undoStack, redoStack, gedcomText>>]_vars

\* C30, what a failed call can leave behind: nothing changed, or the top
\* entry has moved from one stack to the other with the text that was
\* current, and the editor holds the old text or the one being restored
C30_FailedMovesOneEntry ==
    [][/\ (Called("undo") /\ returned' = "false") =>
              \/ UNCHANGED <<undoStack, redoStack, gedcomText>>
              \/ /\ undoStack' = Front(undoStack)
                 /\ redoStack' = Append(redoStack,
                        Entry(Last(undoStack).description, gedcomText))
                 /\ gedcomText' \in {gedcomText, Last(undoStack).text}
       /\ (Called("redo") /\ returned' = "false") =>
              \/ UNCHANGED <<undoStack, redoStack, gedcomText>>
              \/ /\ redoStack' = Front(redoStack)
                 /\ undoStack' = Append(undoStack,
                        Entry(Last(redoStack).description, gedcomText))
                 /\ gedcomText' \in {gedcomText, Last(redoStack).text}]_vars
====
